---- MODULE Spec2Model ----
(***************************************************************************)
(* A model of the MixtureWCRP Markov chain (src/src/MixtureWCRP.cpp): the  *)
(* partition ledger (assign_item_to_table / remove_item_from_table), the   *)
(* constructor, run_mcmc with its stages, gibbs_resample_skill,            *)
(* record_sample and the two queries.                                      *)
(*                                                                         *)
(* Reals are modelled in fixed point.  A probability is an integer number  *)
(* of 1/One units; a prediction is an integer number of 1/One^3 units; a   *)
(* log-likelihood is an integer number of 1/LogRes units of log2.  The     *)
(* hyperparameters are extended reals (finite, -inf, NaN) whose finite     *)
(* values are integer multiples of the initial bracket width (1/4).        *)
(* Vectors indexed from 0 in the code are TLA+ sequences read with At.     *)
(***************************************************************************)
EXTENDS Integers, Sequences, FiniteSets, TLC

VARIABLES
    data,                    \* the immutable inputs of the constructor
    build,                   \* what the compiler chose where the language leaves it open
    beta,                    \* constructor argument beta, in 1/One units
    seating_arrangement,     \* item -> table id (UNASSIGNED when none)
    parameters,              \* table id -> bkt_parameters
    table_sizes,             \* table id -> number of items
    extant_tables,           \* set of table ids
    trial_lookup,            \* table id -> student -> sequence of trial numbers
    num_used_skills,
    tables_ever_instantiated,
    log_gamma,
    log_alpha_prime,
    prior_samples,           \* sequence of bkt_parameters
    singleton_skill_data_lp, \* item -> sequence of log-likelihoods
    pRT_samples,             \* student -> trial -> sequence of predictions
    skill_label_samples,     \* sequence of label vectors
    train_ll_samples,        \* sequence of log-likelihoods
    pc,                      \* where the program is
    ctor,                    \* locals of the constructor
    run,                     \* locals of run_mcmc
    gib,                     \* locals of gibbs_resample_skill
    ret,                     \* what the last query or ledger call returned
    fault,                   \* "none", or the assertion / range check that ended the program
    budget                   \* counters that bound the model

vars == <<data, build, beta, seating_arrangement, parameters, table_sizes, extant_tables,
          trial_lookup, num_used_skills, tables_ever_instantiated, log_gamma,
          log_alpha_prime, prior_samples, singleton_skill_data_lp, pRT_samples,
          skill_label_samples, train_ll_samples, pc, ctor, run, gib, ret, fault, budget>>

ledgerVars == <<seating_arrangement, parameters, table_sizes, extant_tables,
                trial_lookup, num_used_skills>>

sampleVars == <<pRT_samples, skill_label_samples, train_ll_samples>>

-----------------------------------------------------------------------------
(* Bounds of the model *)

\* number of auxiliary prior draws (constructor argument num_subsamples)
NumSubsamples == 2

\* run_mcmc iterations executed over the life of one chain
MaxSweeps == 2

\* tables created by Gibbs steps (or by free ledger calls) over the life of one chain
MaxNewTables == 1

\* slice updates that move a value, over the life of one chain
MaxSliceMoves == 1

\* resolution of the fixed-point log2
LogRes == 16

\* gamma = exp(log_gamma) is a multiple of 1 / GammaRes
GammaRes == 64

(* Program constants, in model units *)

\* common.hpp is not part of src/; UNASSIGNED is the id no table ever has
UNASSIGNED == 0

\* [TOL, ONEMINUSTOL] is the range of a BKT parameter, in 1/One units
TOL == 1

ONEMINUSTOL == 11

One == TOL + ONEMINUSTOL

\* 1 / initial_bracket_width of the hyperparameter slice updates (.25)
InvBracket == 4

-----------------------------------------------------------------------------
(* Inputs *)

\* two items with different expert labels, two training students and a held-out one
DataA == [num_students |-> 3, num_items |-> 2,
          item_sequences |-> << <<0, 1, 0>>, <<1>>, <<1, 0>> >>,
          recall_sequences |-> << <<FALSE, TRUE, TRUE>>, <<TRUE>>, <<TRUE, FALSE>> >>,
          provided_skill_assignments |-> <<0, 1>>,
          train_students |-> {0, 1}]

\* two items with the same expert label, two training students
DataB == [num_students |-> 2, num_items |-> 2,
          item_sequences |-> << <<0, 1, 0>>, <<1, 0>> >>,
          recall_sequences |-> << <<FALSE, TRUE, TRUE>>, <<FALSE, TRUE>> >>,
          provided_skill_assignments |-> <<0, 0>>,
          train_students |-> {0, 1}]

Datasets == {DataA, DataB}

\* DataA with no student in train_students
DataNoTrain == [DataA EXCEPT !.train_students = {}]

\* beta = 0 (data-driven clustering) and beta = 1 (expert labels)
BetaInputs == {0, One}

\* mixing weights below 0 and above 1
OutOfRangeBetas == {-One, 2 * One}

\* init_alpha_prime = 1, as log(init_alpha_prime)
InitLogAlphaPrime == 0

At(seq, i) == seq[i + 1]

Students == 0 .. (data.num_students - 1)

Items == 0 .. (data.num_items - 1)

NumTrials(student) == Len(At(data.item_sequences, student))

ItemAt(student, trial) == At(At(data.item_sequences, student), trial)

RecallAt(student, trial) == At(At(data.recall_sequences, student), trial)

ExpertLabel(item) == At(data.provided_skill_assignments, item)

RECURSIVE SeqMax(_)
SeqMax(s) == IF Len(s) = 1 THEN s[1]
             ELSE LET m == SeqMax(Tail(s)) IN IF s[1] > m THEN s[1] ELSE m

RECURSIVE SeqSum(_)
SeqSum(s) == IF s = <<>> THEN 0 ELSE s[1] + SeqSum(Tail(s))

\* the ascending sequence of the members of a set of integers
RECURSIVE AscSeq(_)
AscSeq(S) == IF S = {} THEN <<>>
             ELSE LET m == CHOOSE x \in S : \A y \in S : x <= y
                  IN <<m>> \o AscSeq(S \ {m})

-----------------------------------------------------------------------------
(* Dataset helper tables built by the constructor *)

num_expert_provided_skills == 1 + SeqMax(data.provided_skill_assignments)

trials_studied(student, item) ==
    AscSeq({trial \in 0 .. (NumTrials(student) - 1) : ItemAt(student, trial) = item})

first_encounter(student, item) ==
    LET ts == trials_studied(student, item)
    IN IF ts = <<>> THEN NumTrials(student) ELSE ts[1]

\* without the test of line 177: every student that has a trial of the item
studied_by_anyone(student, item) == trials_studied(student, item) # <<>>

ever_studied(student, item) ==
    /\ student \in data.train_students
    /\ trials_studied(student, item) # <<>>

students_who_studied(item) == AscSeq({s \in Students : ever_studied(s, item)})

all_first_encounters(item) ==
    LET ss == students_who_studied(item)
    IN [k \in 1 .. Len(ss) |-> first_encounter(ss[k], item)]

StudentSet(item) == {s \in Students : ever_studied(s, item)}

Abs(x) == IF x < 0 THEN -x ELSE x

equals_one(x) == Abs(One - x) <= TOL

use_expert_labels == equals_one(beta)

-----------------------------------------------------------------------------
(* Fixed-point arithmetic of the knowledge-tracing filter *)

RECURSIVE FloorLog2(_)
FloorLog2(n) == IF n < 2 THEN 0 ELSE 1 + FloorLog2(n \div 2)

RECURSIVE Pow2(_)
Pow2(k) == IF k = 0 THEN 1 ELSE 2 * Pow2(k - 1)

\* log2(n) in 1/LogRes units, linear between the powers of two
LogFix(n) == LET k == FloorLog2(n)
             IN LogRes * k + (LogRes * (n - Pow2(k))) \div Pow2(k)

PredOne == One * One * One

\* log(x) of a probability x given in 1/PredOne units
LogProb(x) == LogFix(x) - LogFix(PredOne)

\* skill_pi0 = skill_pi1 * prop0, in 1/One^2 units
SkillPi0(sp) == sp.pi1 * sp.prop0

\* skill_pi0 * (1.0 - cur_p_hat) + skill_pi1 * cur_p_hat, in 1/PredOne units
Prediction(sp, cur_p_hat) ==
    SkillPi0(sp) * (One - cur_p_hat) + sp.pi1 * cur_p_hat * One

\* the belief after one trial, in 1/One units
PHatUpdate(sp, cur_p_hat, did_recall) ==
    IF did_recall
    THEN LET a == sp.pi1 * cur_p_hat * One
             b == SkillPi0(sp) * (One - cur_p_hat)
         IN (One * a + sp.mu * b) \div (a + b)
    ELSE LET a == (One - sp.pi1) * cur_p_hat * One
             b == (One * One - SkillPi0(sp)) * (One - cur_p_hat)
         IN (One * a + sp.mu * b) \div (a + b)

\* the log-likelihood of one observed trial
TrialLogLik(sp, cur_p_hat, did_recall) ==
    IF did_recall THEN LogProb(Prediction(sp, cur_p_hat))
    ELSE LogProb(PredOne - Prediction(sp, cur_p_hat))

-----------------------------------------------------------------------------
(* Maps with a changing key set (boost::unordered_map) *)

Put(m, k, v) == [x \in DOMAIN m \cup {k} |-> IF x = k THEN v ELSE m[x]]

\* an erase that leaves the entry in place
KeepEntry(m, k) == m

Erase(m, k) == [x \in DOMAIN m \ {k} |-> m[x]]

EmptyMap == [x \in {} |-> 0]

\* operator[] of a map of integers: a missing key is created with value 0
GetOrZero(m, k) == IF k \in DOMAIN m THEN m[k] ELSE 0

\* operator[] of a map of maps: a missing key is created empty
GetOrEmpty(m, k) == IF k \in DOMAIN m THEN m[k] ELSE EmptyMap

-----------------------------------------------------------------------------
(* The partition ledger *)

Ledger == [sa |-> seating_arrangement, params |-> parameters, sizes |-> table_sizes,
           extant |-> extant_tables, tl |-> trial_lookup, nus |-> num_used_skills]

SetLedger(L) ==
    /\ seating_arrangement' = L.sa
    /\ parameters' = L.params
    /\ table_sizes' = L.sizes
    /\ extant_tables' = L.extant
    /\ trial_lookup' = L.tl
    /\ num_used_skills' = L.nus

\* the second list appended to the first instead of merged into it
Concat(a, b) == a \o b

\* std::merge of two ascending sequences
RECURSIVE Merge(_, _)
Merge(a, b) ==
    IF a = <<>> THEN b
    ELSE IF b = <<>> THEN a
    ELSE IF b[1] < a[1] THEN <<b[1]>> \o Merge(a, Tail(b))
    ELSE <<a[1]>> \o Merge(Tail(a), b)

\* the item's trials stored in place of the student's list instead of merged into it
OverwriteItemTrials(m, item) ==
    [s \in DOMAIN m \cup StudentSet(item) |->
        IF s \notin StudentSet(item) THEN m[s] ELSE trials_studied(s, item)]

\* the per-student update of trial_lookup[table_id] when an item sits at an existing table
MergeItemTrials(m, item) ==
    [s \in DOMAIN m \cup StudentSet(item) |->
        IF s \notin StudentSet(item) THEN m[s]
        ELSE IF s \notin DOMAIN m THEN trials_studied(s, item)
        ELSE Merge(m[s], trials_studied(s, item))]

\* assign_item_to_table without `table_sizes[table_id]++' at an existing table
assign_item_without_count(L, item, table_id, is_new_table, new_params) ==
    IF is_new_table
    THEN [sa |-> [L.sa EXCEPT ![item] = table_id],
          params |-> Put(L.params, table_id, new_params),
          sizes |-> Put(L.sizes, table_id, 1),
          extant |-> L.extant \cup {table_id},
          tl |-> Put(L.tl, table_id,
                     [s \in StudentSet(item) |-> trials_studied(s, item)]),
          nus |-> L.nus + 1]
    ELSE [sa |-> [L.sa EXCEPT ![item] = table_id],
          params |-> L.params,
          sizes |-> Put(L.sizes, table_id, GetOrZero(L.sizes, table_id)),
          extant |-> L.extant,
          tl |-> Put(L.tl, table_id, MergeItemTrials(GetOrEmpty(L.tl, table_id), item)),
          nus |-> L.nus]

\* new_params is the record draw_bkt_param_prior produces when is_new_table
assign_item_to_table(L, item, table_id, is_new_table, new_params) ==
    IF is_new_table
    THEN [sa |-> [L.sa EXCEPT ![item] = table_id],
          params |-> Put(L.params, table_id, new_params),
          sizes |-> Put(L.sizes, table_id, 1),
          extant |-> L.extant \cup {table_id},
          tl |-> Put(L.tl, table_id,
                     [s \in StudentSet(item) |-> trials_studied(s, item)]),
          nus |-> L.nus + 1]
    ELSE [sa |-> [L.sa EXCEPT ![item] = table_id],
          params |-> L.params,
          sizes |-> Put(L.sizes, table_id, GetOrZero(L.sizes, table_id) + 1),
          extant |-> L.extant,
          tl |-> Put(L.tl, table_id, MergeItemTrials(GetOrEmpty(L.tl, table_id), item)),
          nus |-> L.nus]

\* assert(num_used_skills == table_sizes.size()) at the end of assign_item_to_table
AssignAssertHolds(L) == L.nus = Cardinality(DOMAIN L.sizes)

\* as many leading trials dropped as the item has, whichever item they belong to
DropLeadingTrials(list, ts, num_ignored) == SubSeq(list, Len(ts) + 1, Len(list))

\* the loop that copies a trial list without the trials of the removed item
RECURSIVE SkipItemTrials(_, _, _)
SkipItemTrials(list, ts, num_ignored) ==
    IF list = <<>> THEN <<>>
    ELSE IF \/ (num_ignored < Len(ts) /\ list[1] # ts[num_ignored + 1])
            \/ num_ignored >= Len(ts)
         THEN <<list[1]>> \o SkipItemTrials(Tail(list), ts, num_ignored)
         ELSE SkipItemTrials(Tail(list), ts, num_ignored + 1)

\* the per-student update of trial_lookup[table_id] when an item leaves a table that stays
RemoveItemTrials(m, item) ==
    LET gone == {s \in DOMAIN m \cap StudentSet(item) :
                    Len(m[s]) - Len(trials_studied(s, item)) = 0}
    IN [s \in DOMAIN m \ gone |->
           IF s \in StudentSet(item) THEN SkipItemTrials(m[s], trials_studied(s, item), 0)
           ELSE m[s]]

\* the ledger after the call, and the value returned (true: the table was deleted)
remove_item_from_table(L, item, table_id) ==
    LET size == GetOrZero(L.sizes, table_id) - 1
    IN IF size = 0
       THEN [L |-> [sa |-> [L.sa EXCEPT ![item] = UNASSIGNED],
                    params |-> Erase(L.params, table_id),
                    sizes |-> Erase(L.sizes, table_id),
                    extant |-> L.extant \ {table_id},
                    tl |-> Erase(L.tl, table_id),
                    nus |-> L.nus - 1],
             deleted |-> TRUE]
       ELSE [L |-> [sa |-> [L.sa EXCEPT ![item] = UNASSIGNED],
                    params |-> L.params,
                    sizes |-> Put(L.sizes, table_id, size),
                    extant |-> L.extant,
                    tl |-> Put(L.tl, table_id,
                               RemoveItemTrials(GetOrEmpty(L.tl, table_id), item)),
                    nus |-> L.nus],
             deleted |-> FALSE]

-----------------------------------------------------------------------------
(* The random source *)

\* the draws of sampleUniform01 used for one bkt_parameters record (psi, mu, pi1, prop0),
\* in 1/One units; every draw lies strictly between 0 and 1
PriorUniforms == {<<3, 3, 9, 3>>}

FromUniform(u) == TOL + ((ONEMINUSTOL - TOL) * u) \div One

\* the records draw_bkt_param_prior can produce
draw_bkt_param_prior ==
    {[psi |-> FromUniform(u[1]), mu |-> FromUniform(u[2]),
      pi1 |-> FromUniform(u[3]), prop0 |-> FromUniform(u[4])] : u \in PriorUniforms}

\* the draws of sampleUniform01 used for the records of the pool (line 224): the draws
\* of one pool differ from each other and from the other draws of the chain
PoolUniforms(subsample) == <<IF subsample % 2 = 1 THEN 9 ELSE 6, 3, 9, 3>>

\* the pools the loop of line 224 can fill
draw_prior_samples ==
    {[k \in 1 .. NumSubsamples |->
         [psi |-> FromUniform(PoolUniforms(k)[1]), mu |-> FromUniform(PoolUniforms(k)[2]),
          pi1 |-> FromUniform(PoolUniforms(k)[3]), prop0 |-> FromUniform(PoolUniforms(k)[4])]]}

\* the draws of sampleUniform01 that place the proposal of a BKT slice update
SliceUniforms == {3, 9}

\* the values a slice update of a BKT parameter proposes, in 1/One units
ParamGrid == {FromUniform(u) : u \in SliceUniforms}

\* the finite values a slice update of a hyperparameter proposes, in 1/HyperOne units
HyperOne == 2 * InvBracket

HyperGrid == {(4 * HyperOne) * k : k \in (-1) .. 1}

-----------------------------------------------------------------------------
(* The likelihood engine.  A lookup that throws std::out_of_range is reported *)
(* by the ...Throws operators; the values are computed only when none does.   *)

RECURSIVE ScratchStudentLL(_, _, _, _, _)
ScratchStudentLL(sp, student, list, start_trial, cur_p_hat) ==
    IF list = <<>> THEN 0
    ELSE LET did_recall == RecallAt(student, list[1])
         IN (IF list[1] >= start_trial THEN TrialLogLik(sp, cur_p_hat, did_recall) ELSE 0)
            + ScratchStudentLL(sp, student, Tail(list), start_trial,
                               PHatUpdate(sp, cur_p_hat, did_recall))

Min(a, b) == IF a < b THEN a ELSE b

\* parameters.at(table_id), trial_lookup.at(table_id).at(student)
SkillLLThrows(L, table_id, affected_students) ==
    \/ table_id \notin DOMAIN L.params
    \/ table_id \notin DOMAIN L.tl
    \/ \E k \in 1 .. Len(affected_students) : affected_students[k] \notin DOMAIN L.tl[table_id]

\* skill_log_likelihood from scratch: the belief starts at psi
skill_log_likelihood(L, table_id, affected_students, first_exposures) ==
    LET sp == L.params[table_id]
        per(k) == Min(0, ScratchStudentLL(sp, affected_students[k],
                                          L.tl[table_id][affected_students[k]],
                                          first_exposures[k], sp.psi))
    IN Min(0, SeqSum([k \in 1 .. Len(affected_students) |-> per(k)]))

\* with `>' in place of `>=': the trial at start_trial itself is left out
RECURSIVE CachedStudentLLAfter(_, _, _, _, _)
CachedStudentLLAfter(sp, student, list, start_trial, cur_p_hat) ==
    IF list = <<>> THEN 0
    ELSE IF list[1] > start_trial
         THEN LET did_recall == RecallAt(student, list[1])
              IN TrialLogLik(sp, cur_p_hat, did_recall)
                 + CachedStudentLLAfter(sp, student, Tail(list), start_trial,
                                        PHatUpdate(sp, cur_p_hat, did_recall))
         ELSE CachedStudentLLAfter(sp, student, Tail(list), start_trial, cur_p_hat)

\* lines 686-697: only the trials from start_trial on are replayed and scored
RECURSIVE CachedStudentLL(_, _, _, _, _)
CachedStudentLL(sp, student, list, start_trial, cur_p_hat) ==
    IF list = <<>> THEN 0
    ELSE IF list[1] >= start_trial
         THEN LET did_recall == RecallAt(student, list[1])
              IN TrialLogLik(sp, cur_p_hat, did_recall)
                 + CachedStudentLL(sp, student, Tail(list), start_trial,
                                   PHatUpdate(sp, cur_p_hat, did_recall))
         ELSE CachedStudentLL(sp, student, Tail(list), start_trial, cur_p_hat)

TableMissing(L, table_id) ==
    table_id \notin DOMAIN L.sizes \/ L.sizes[table_id] = 0

\* init_p_hat.at(student_idx).at(table_id) for the students that have trials of the table
CachedSkillLLThrows(L, table_id, affected_students, init_p_hat) ==
    /\ ~TableMissing(L, table_id)
    /\ \/ table_id \notin DOMAIN L.params
       \/ table_id \notin DOMAIN L.tl
       \/ \E k \in 1 .. Len(affected_students) :
             /\ affected_students[k] \in DOMAIN L.tl[table_id]
             /\ table_id \notin DOMAIN init_p_hat[k]

\* skill_log_likelihood from the cached beliefs init_p_hat
cached_skill_log_likelihood(L, table_id, affected_students, first_exposures, init_p_hat) ==
    IF TableMissing(L, table_id) THEN 0
    ELSE LET sp == L.params[table_id]
             per(k) == IF affected_students[k] \notin DOMAIN L.tl[table_id] THEN 0
                       ELSE Min(0, CachedStudentLL(sp, affected_students[k],
                                                   L.tl[table_id][affected_students[k]],
                                                   first_exposures[k],
                                                   init_p_hat[k][table_id]))
         IN SeqSum([k \in 1 .. Len(affected_students) |-> per(k)])

\* the beliefs every replay starts from: psi of every table that has parameters
InitialPHat(L) == [t \in DOMAIN L.params |-> L.params[t].psi]

\* a replayed trial looks up the table of its item: parameters.at(table_id)
ReplayThrows(L, student, end_trial) ==
    \E trial \in 0 .. (end_trial - 1) : L.sa[ItemAt(student, trial)] \notin DOMAIN L.params

RECURSIVE ReplayPHat(_, _, _, _, _)
ReplayPHat(L, student, trial, end_trial, p_hat) ==
    IF trial >= end_trial THEN p_hat
    ELSE LET table_id == L.sa[ItemAt(student, trial)]
             next == PHatUpdate(L.params[table_id], p_hat[table_id], RecallAt(student, trial))
         IN ReplayPHat(L, student, trial + 1, end_trial, [p_hat EXCEPT ![table_id] = next])

\* cache_p_hat: the belief of every table right before trial end_trial
cache_p_hat(L, student, end_trial) == ReplayPHat(L, student, 0, end_trial, InitialPHat(L))

RECURSIVE ReplayLogLik(_, _, _, _, _)
ReplayLogLik(L, student, trial, start_trial, p_hat) ==
    IF trial >= NumTrials(student) THEN 0
    ELSE LET table_id == L.sa[ItemAt(student, trial)]
             sp == L.params[table_id]
             did_recall == RecallAt(student, trial)
         IN (IF trial >= start_trial THEN TrialLogLik(sp, p_hat[table_id], did_recall) ELSE 0)
            + ReplayLogLik(L, student, trial + 1, start_trial,
                           [p_hat EXCEPT ![table_id] = PHatUpdate(sp, p_hat[table_id], did_recall)])

\* data_log_likelihood(student, start_trial, num_trials)
data_log_likelihood(L, student, start_trial) ==
    ReplayLogLik(L, student, 0, start_trial, InitialPHat(L))

IncludedStudents(is_training) ==
    {s \in Students : (is_training /\ s \in data.train_students)
                      \/ (~is_training /\ s \notin data.train_students)}

FullDataThrows(L, is_training) ==
    \E s \in IncludedStudents(is_training) : ReplayThrows(L, s, NumTrials(s))

full_data_log_likelihood(L, is_training) ==
    LET ss == AscSeq(IncludedStudents(is_training))
    IN SeqSum([k \in 1 .. Len(ss) |-> data_log_likelihood(L, ss[k], 0)])

-----------------------------------------------------------------------------
(* Extended reals of the hyperparameters: IEEE doubles that are finite,    *)
(* minus infinity (log(0.0)) or NaN.  A finite value v stands for          *)
(* v / HyperOne.                                                           *)

Fin(v) == [k |-> "fin", v |-> v]

NegInf == [k |-> "ninf", v |-> 0]

NaN == [k |-> "nan", v |-> 0]

\* a < b on doubles: false when either is NaN
ExtLess(a, b) ==
    IF a.k = "nan" \/ b.k = "nan" THEN FALSE
    ELSE IF b.k = "ninf" THEN FALSE
    ELSE IF a.k = "ninf" THEN TRUE
    ELSE a.v < b.v

ExtLeq(a, b) == (a.k # "nan" /\ b.k # "nan") /\ ~ExtLess(b, a)

\* std::max(a, b) is (a < b) ? b : a, and std::min(a, b) is (b < a) ? b : a
StdMax(a, b) == IF ExtLess(a, b) THEN b ELSE a

StdMin(a, b) == IF ExtLess(b, a) THEN b ELSE a

\* a + d for a finite d
ExtShift(a, d) == IF a.k = "fin" THEN Fin(a.v + d) ELSE a

\* x_r + (x_l - x_r) * sampleUniform01(): the same segment over the reals, but NaN when
\* x_r is minus infinity
ReversedProposalValues(x_l, x_r, cur_val, grid) ==
    IF x_l.k = "nan" \/ x_r.k = "nan" THEN {NaN}
    ELSE IF x_r.k = "ninf" THEN {NaN}
    ELSE IF x_l.k = "ninf" THEN {NegInf}
    ELSE LET lo == IF x_l.v < x_r.v THEN x_l.v ELSE x_r.v
             hi == IF x_l.v < x_r.v THEN x_r.v ELSE x_l.v
             points == grid \cup (IF cur_val.k = "fin" THEN {cur_val.v} ELSE {})
         IN {Fin(g) : g \in {x \in points : lo <= x /\ x <= hi}}

\* the values x_l + (x_r - x_l) * sampleUniform01() can take: for finite ends the
\* proposals are drawn on the grid, and always include the current value in reach
ProposalValues(x_l, x_r, cur_val, grid) ==
    IF x_l.k = "nan" \/ x_r.k = "nan" THEN {NaN}
    ELSE IF x_l.k = "ninf" THEN {NaN}
    ELSE IF x_r.k = "ninf" THEN {NegInf}
    ELSE LET lo == Min(x_l.v, x_r.v)
             hi == IF x_l.v < x_r.v THEN x_r.v ELSE x_l.v
             points == grid \cup (IF cur_val.k = "fin" THEN {cur_val.v} ELSE {})
         IN {Fin(g) : g \in {x \in points : lo <= x /\ x <= hi}}

\* log(1.0 - beta) for the beta inputs
LogOneMinusBeta(b) ==
    IF b = One THEN NegInf
    ELSE IF b > One THEN NaN
    ELSE Fin((HyperOne * (LogFix(One - b) - LogFix(One)) * 11) \div (16 * LogRes))

\* log_seating_prob() is finite exactly when the new-table probability
\* exp(-log(n) + log_alpha_prime + log_gamma) of the first item is not zero: when it
\* is zero the first term is log(0) - log(0), which is NaN and stays NaN in the sum.
\* The value is "fin" (some finite double) or "nan".
log_seating_prob(lg, lap) == IF lg.k = "fin" /\ lap.k = "fin" THEN "fin" ELSE "nan"

\* x + log(sampleUniform01()) and sums of log-densities keep NaN
LpSum(a, b) == IF a = "nan" \/ b = "nan" THEN "nan" ELSE "fin"

\* log_logalphaprime_prior_density is finite for a finite argument
log_logalphaprime_prior_density(x) == IF x.k = "fin" THEN "fin" ELSE "nan"

\* log_loggamma_prior_density returns 0.0
log_loggamma_prior_density(x) == "fin"

\* assert(x <= 0) of log_loggamma_prior_density
LogGammaPriorAssertHolds(x) == ExtLeq(x, Fin(0))

PriorLp(which, x) == IF which = "gamma" THEN log_loggamma_prior_density(x)
                     ELSE log_logalphaprime_prior_density(x)

\* log_seating_prob() with the hyperparameter under update set to x
SeatingLpAt(which, x, other) ==
    IF which = "gamma" THEN log_seating_prob(x, other) ELSE log_seating_prob(other, x)

\* `a > jittered' can be true: only for two finite doubles (the finite values are not
\* computed, so a comparison of two finite log-densities can go either way)
CanExceed(a, jittered) == a = "fin" /\ jittered = "fin"

\* the values x_l can have after `while (x_l >= lower_bound && ... > jittered) x_l -= w'
RECURSIVE ExpandLeft(_, _, _, _, _)
ExpandLeft(which, x_l, other, lower_bound, jittered) ==
    IF /\ ExtLeq(lower_bound, x_l)
       /\ CanExceed(LpSum(SeatingLpAt(which, x_l, other), PriorLp(which, x_l)), jittered)
    THEN {x_l} \cup ExpandLeft(which, ExtShift(x_l, -2), other, lower_bound, jittered)
    ELSE {x_l}

RECURSIVE ExpandRight(_, _, _, _, _)
ExpandRight(which, x_r, other, upper_bound, jittered) ==
    IF /\ ExtLeq(x_r, upper_bound)
       /\ CanExceed(LpSum(SeatingLpAt(which, x_r, other), PriorLp(which, x_r)), jittered)
    THEN {x_r} \cup ExpandRight(which, ExtShift(x_r, 2), other, upper_bound, jittered)
    ELSE {x_r}

\* the brackets [x_l, x_r] with which the shrinkage loop of one hyperparameter slice
\* update can start (lines 889-907); `which' is the hyperparameter, `other' the value of
\* the other one.  The split of the initial bracket is at its middle (half a bracket is
\* 1/HyperOne).
shrinkage_brackets(which, cur_val, other, cur_seating_lp, lower_bound, upper_bound) ==
    LET jittered == LpSum(cur_seating_lp, PriorLp(which, cur_val))
        x_l0 == StdMax(lower_bound, ExtShift(cur_val, -1))
        x_r0 == StdMin(upper_bound, ExtShift(cur_val, 1))
        lefts == {StdMax(x, lower_bound) :
                     x \in ExpandLeft(which, x_l0, other, lower_bound, jittered)}
        rights == {StdMin(x, upper_bound) :
                      x \in ExpandRight(which, x_r0, other, upper_bound, jittered)}
    IN {[x_l |-> l, x_r |-> r] : l \in lefts, r \in rights}

\* the (value left in *param, log-density returned) pairs of one hyperparameter slice
\* update
slice_resample_wcrp_param(which, cur_val, other, cur_seating_lp, lower_bound, upper_bound) ==
    LET jittered == LpSum(cur_seating_lp, PriorLp(which, cur_val))
        proposals == UNION {ProposalValues(b.x_l, b.x_r, cur_val, HyperGrid) :
                               b \in shrinkage_brackets(which, cur_val, other, cur_seating_lp,
                                                        lower_bound, upper_bound)}
        returns(x) ==
            \/ CanExceed(LpSum(SeatingLpAt(which, x, other), PriorLp(which, x)), jittered)
            \/ (~ExtLess(cur_val, x) /\ ~ExtLess(x, cur_val))
    IN {[param |-> x, lp |-> SeatingLpAt(which, x, other)] : x \in {y \in proposals : returns(y)}}

\* the values one slice update can leave in a BKT parameter: a proposal between the
\* bracket ends, which stay within [TOL, ONEMINUSTOL] and around the current value
slice_resample_bkt_parameter(cur_val) ==
    LET lower_bound == TOL
        upper_bound == ONEMINUSTOL
    IN {x \in ParamGrid \cup {cur_val} : lower_bound <= x /\ x <= upper_bound}

-----------------------------------------------------------------------------
(* The agreement statistic K of the seating probabilities.  gamma is the    *)
(* rational n / GammaRes; a value of compute_K is the fraction num / den,   *)
(* or NaN when gamma is.                                                    *)

\* GammaRes * (7/8)^m, rounded down: exp(-1/8) is close to 7/8
RECURSIVE Decay(_, _)
Decay(x, m) == IF m = 0 THEN x ELSE Decay((x * 7) \div 8, m - 1)

\* exp(log_gamma) in 1/GammaRes units: 0 for minus infinity, and no finite log_gamma in
\* reach underflows to 0
ExpGamma(lg) ==
    IF lg.k = "ninf" THEN 0
    ELSE IF lg.v >= 0 THEN GammaRes
    ELSE LET g == Decay(GammaRes, -lg.v) IN IF g < 1 THEN 1 ELSE g

\* b^e with pow(0, 0) = 1
RECURSIVE IntPow(_, _)
IntPow(b, e) == IF e = 0 THEN 1 ELSE b * IntPow(b, e - 1)

\* the denominator without the labels that do not occur at the table
denominator_without_absent_labels(absent, gamma_pow_max, occurring_sum) == occurring_sum

\* line 106-107: (num_expert_provided_skills - counts.size()) * pow(gamma, max_count),
\* plus pow(gamma, max_count - count) of every label that occurs at the table
denominator_K(absent, gamma_pow_max, occurring_sum) == absent * gamma_pow_max + occurring_sum

\* compute_K(item, table_id, generative_mode) at the seating sa and hyperparameter lg;
\* pow(gamma, k) is written over the common denominator GammaRes^max_count
compute_K(sa, lg, item, table_id, generative_mode) ==
    LET gamma == ExpGamma(lg)
        end_idx == IF generative_mode THEN item ELSE data.num_items
        item_expert_label == ExpertLabel(item)
        others == {o \in 0 .. (end_idx - 1) : o # item /\ sa[o] = table_id}
        labels == {ExpertLabel(o) : o \in others}
        counts == [l \in labels |-> Cardinality({o \in others : ExpertLabel(o) = l})]
        max_count == IF labels = {} THEN 0
                     ELSE CHOOSE c \in {counts[l] : l \in labels} :
                             \A l \in labels : counts[l] <= c
        pow(k) == IntPow(gamma, k) * IntPow(GammaRes, max_count - k)
        has_item_expert_label == item_expert_label \in labels
        numerator_K == IF has_item_expert_label THEN pow(max_count - counts[item_expert_label])
                       ELSE pow(max_count)
        occurring == AscSeq(labels)
    IN IF lg.k = "nan" THEN [nan |-> TRUE, num |-> 0, den |-> 0]
       ELSE [nan |-> FALSE,
             num |-> numerator_K,
             den |-> denominator_K(num_expert_provided_skills - Cardinality(labels),
                                   pow(max_count),
                                   SeqSum([n \in 1 .. Len(occurring) |->
                                              pow(max_count - counts[occurring[n]])]))]

\* the calls compute_K(item, table, true) of one log_seating_prob(): every item against
\* every table that a lower-indexed item sits at (lines 755-757)
GenerativeK(sa, lg) ==
    UNION {{[item |-> i, table_id |-> t, log_gamma |-> lg,
             K |-> compute_K(sa, lg, i, t, TRUE)] : t \in {sa[j] : j \in 0 .. (i - 1)}}
           : i \in Items}

-----------------------------------------------------------------------------
(* record_sample and the queries *)

\* the labelling loop of record_sample.  `skill_labels[table_id] = skill_labels.size()'
\* reads size() before or after operator[] has inserted the key: the order of the two
\* operands of the assignment is unspecified before C++17.
RECURSIVE Relabel(_, _, _, _)
Relabel(sa, item, skill_labels, size_after_insert) ==
    IF item >= data.num_items THEN <<>>
    ELSE LET table_id == sa[item]
             labels == IF table_id \in DOMAIN skill_labels THEN skill_labels
                       ELSE Put(skill_labels, table_id,
                                Cardinality(DOMAIN skill_labels)
                                + (IF size_after_insert THEN 1 ELSE 0))
         IN <<labels[table_id]>> \o Relabel(sa, item + 1, labels, size_after_insert)

\* the predictions pushed for one student from `trial' on; parameters.at(table_id)
\* (line 489) throws at a trial whose table has no parameters and ends the replay
RECURSIVE ReplayPredictions(_, _, _, _)
ReplayPredictions(L, student, trial, p_hat) ==
    IF trial >= NumTrials(student) THEN <<>>
    ELSE IF L.sa[ItemAt(student, trial)] \notin DOMAIN L.params THEN <<>>
    ELSE LET table_id == L.sa[ItemAt(student, trial)]
             sp == L.params[table_id]
         IN <<Prediction(sp, p_hat[table_id])>>
            \o ReplayPredictions(L, student, trial + 1,
                   [p_hat EXCEPT ![table_id] =
                       PHatUpdate(sp, p_hat[table_id], RecallAt(student, trial))])

\* the predictions record_sample appends for one student, one per trial
StudentPredictions(L, student) == ReplayPredictions(L, student, 0, InitialPHat(L))

RecordThrows(L) == \E s \in Students : ReplayThrows(L, s, NumTrials(s))

\* the sum of the samples, not divided by their number
undivided_sum(vec) == SeqSum(vec)

vector_mean(vec) == SeqSum(vec) \div Len(vec)

\* `>=' in place of `>': a later sample wins a tie
IsAtLeastAsGood(ll, best_ll) == ll >= best_ll

\* train_ll_samples.at(sample) > best_ll
IsBetterSample(ll, best_ll) == ll > best_ll

RECURSIVE BestSample(_, _, _, _)
BestSample(lls, sample, best_ll, best_sample) ==
    IF sample >= Len(lls) THEN best_sample
    ELSE IF sample = 0 \/ IsBetterSample(At(lls, sample), best_ll)
         THEN BestSample(lls, sample + 1, At(lls, sample), sample)
         ELSE BestSample(lls, sample + 1, best_ll, best_sample)

-----------------------------------------------------------------------------
(* Initial state: the constructor has initialised its members and is about *)
(* to check its preconditions (line 144).                                  *)

NoRet == [op |-> "none"]

NoRun == [num_iterations |-> 0, burn |-> 0, infer_gamma |-> FALSE,
          infer_alpha_prime |-> FALSE, iter |-> 0, tables_left |-> {},
          items_left |-> {}, train_ll |-> 0, base |-> 0, seating_K |-> {}]

NoGib == [item |-> 0, active |-> FALSE]

Init ==
    /\ data \in Datasets \cup {DataNoTrain}
    /\ build \in [size_after_insert : BOOLEAN]
    /\ beta \in BetaInputs \cup OutOfRangeBetas
    /\ seating_arrangement = [i \in Items |-> UNASSIGNED]
    /\ parameters = EmptyMap
    /\ table_sizes = EmptyMap
    /\ extant_tables = {}
    /\ trial_lookup = EmptyMap
    /\ num_used_skills = 0
    /\ tables_ever_instantiated = UNASSIGNED + 1
    /\ log_gamma = LogOneMinusBeta(beta)
    /\ log_alpha_prime = Fin(InitLogAlphaPrime)
    /\ prior_samples = <<>>
    /\ singleton_skill_data_lp = EmptyMap
    /\ pRT_samples = [s \in Students |-> [t \in 1 .. NumTrials(s) |-> <<>>]]
    /\ skill_label_samples = <<>>
    /\ train_ll_samples = <<>>
    /\ pc = "ctor_check"
    /\ ctor = [item |-> 0, skills_encountered |-> {}, cur_table_id |-> UNASSIGNED,
               deleted_table |-> FALSE, tmp_table_id |-> UNASSIGNED]
    /\ run = NoRun
    /\ gib = NoGib
    /\ ret = NoRet
    /\ fault = "none"
    /\ budget = [sweeps |-> 0, moves |-> 0, new_tables |-> 0]

inputVars == <<data, build, beta>>

hyperVars == <<log_gamma, log_alpha_prime>>

poolVars == <<prior_samples, singleton_skill_data_lp>>

AssertFault(L) == IF AssignAssertHolds(L) THEN "none" ELSE "assert_num_used_skills"

-----------------------------------------------------------------------------
(* The constructor *)

\* `beta >= 0' alone: a weight above 1 passes
precondition_fault_without_upper_bound ==
    IF data.train_students = {} THEN "assert_train_students"
    ELSE IF data.provided_skill_assignments = <<>> THEN "assert_provided_skill_assignments"
    ELSE IF ~(beta >= 0) THEN "assert_beta"
    ELSE "none"

\* the assertions of lines 144-146, in their order
precondition_fault ==
    IF data.train_students = {} THEN "assert_train_students"
    ELSE IF data.provided_skill_assignments = <<>> THEN "assert_provided_skill_assignments"
    ELSE IF ~(beta >= 0 /\ beta <= One) THEN "assert_beta"
    ELSE "none"

\* lines 144-146: the constructor body starts with its assertions
CtorCheck ==
    /\ pc = "ctor_check" /\ fault = "none"
    /\ fault' = precondition_fault
    /\ pc' = IF precondition_fault = "none" THEN "ctor_seat" ELSE pc
    /\ UNCHANGED <<inputVars, ledgerVars, tables_ever_instantiated, hyperVars, poolVars,
                   sampleVars, ctor, run, gib, ret, budget>>

\* one pass of the loop that seats the items at 1 + their expert label (lines 204-208)
CtorSeat ==
    /\ pc = "ctor_seat" /\ fault = "none"
    /\ ctor.item < data.num_items
    /\ LET item == ctor.item
           table_id == 1 + ExpertLabel(item)
           is_new == table_id \notin ctor.skills_encountered
       IN \E new_params \in draw_bkt_param_prior :
            LET L == assign_item_to_table(Ledger, item, table_id, is_new, new_params)
            IN /\ SetLedger(L)
               /\ fault' = AssertFault(L)
               /\ ctor' = [ctor EXCEPT !.item = item + 1,
                                       !.skills_encountered = @ \cup {table_id}]
    /\ UNCHANGED <<inputVars, tables_ever_instantiated, hyperVars, poolVars, sampleVars,
                   pc, run, gib, ret, budget>>

\* lines 209-224: the counter moves past the expert ids; the pool is drawn when beta < 1
CtorSeated ==
    /\ pc = "ctor_seat" /\ fault = "none"
    /\ ctor.item = data.num_items
    /\ tables_ever_instantiated' = tables_ever_instantiated + num_expert_provided_skills + 1
    /\ IF use_expert_labels
       THEN /\ pc' = "idle"
            /\ UNCHANGED <<poolVars, ctor>>
       ELSE /\ pc' = "ctor_remove"
            /\ prior_samples' \in draw_prior_samples
            /\ singleton_skill_data_lp' = [i \in Items |-> <<>>]
            /\ ctor' = [ctor EXCEPT !.item = 0]
    /\ UNCHANGED <<inputVars, ledgerVars, hyperVars, sampleVars, run, gib, ret, fault, budget>>

\* line 232: temporarily unassign the item from its table
CtorRemove ==
    /\ pc = "ctor_remove" /\ fault = "none"
    /\ LET item == ctor.item
           cur_table_id == seating_arrangement[item]
           r == remove_item_from_table(Ledger, item, cur_table_id)
       IN /\ SetLedger(r.L)
          /\ ctor' = [ctor EXCEPT !.cur_table_id = cur_table_id, !.deleted_table = r.deleted]
    /\ pc' = "ctor_single"
    /\ UNCHANGED <<inputVars, tables_ever_instantiated, hyperVars, poolVars, sampleVars,
                   run, gib, ret, fault, budget>>

\* the parameters of the temporary table after the loop over the pool (line 241)
SingletonParams(L, tmp_table_id) ==
    IF NumSubsamples = 0 THEN L.params
    ELSE Put(L.params, tmp_table_id, prior_samples[NumSubsamples])

\* lines 235-243: a singleton skill for the item, scored under each draw of the pool
CtorSingleton ==
    /\ pc = "ctor_single" /\ fault = "none"
    /\ LET item == ctor.item
           tmp_table_id == tables_ever_instantiated
       IN \E new_params \in draw_bkt_param_prior :
            LET L == assign_item_to_table(Ledger, item, tmp_table_id, TRUE, new_params)
                lp(subsample) ==
                    skill_log_likelihood([L EXCEPT !.params = Put(L.params, tmp_table_id,
                                                                  prior_samples[subsample])],
                                         tmp_table_id, students_who_studied(item),
                                         all_first_encounters(item))
            IN /\ SetLedger([L EXCEPT !.params = SingletonParams(L, tmp_table_id)])
               /\ fault' = IF ~AssignAssertHolds(L) THEN "assert_num_used_skills"
                           ELSE IF SkillLLThrows(L, tmp_table_id, students_who_studied(item))
                                THEN "out_of_range"
                                ELSE "none"
               /\ singleton_skill_data_lp' =
                      IF SkillLLThrows(L, tmp_table_id, students_who_studied(item))
                      THEN singleton_skill_data_lp
                      ELSE [singleton_skill_data_lp EXCEPT
                               ![item] = [k \in 1 .. NumSubsamples |-> lp(k)]]
               /\ ctor' = [ctor EXCEPT !.tmp_table_id = tmp_table_id]
    /\ tables_ever_instantiated' = tables_ever_instantiated + 1
    /\ pc' = "ctor_unsingle"
    /\ UNCHANGED <<inputVars, hyperVars, prior_samples, sampleVars, run, gib, ret, budget>>

\* line 246: delete the singleton skill
CtorRemoveSingleton ==
    /\ pc = "ctor_unsingle" /\ fault = "none"
    /\ SetLedger(remove_item_from_table(Ledger, ctor.item, ctor.tmp_table_id).L)
    /\ pc' = "ctor_reassign"
    /\ UNCHANGED <<inputVars, tables_ever_instantiated, hyperVars, poolVars, sampleVars,
                   ctor, run, gib, ret, fault, budget>>

\* the skill that the removal deleted comes back under the identifier it had
CtorReassignSameId ==
    /\ pc = "ctor_reassign" /\ fault = "none"
    /\ LET item == ctor.item
       IN \E new_params \in draw_bkt_param_prior :
            LET L == assign_item_to_table(Ledger, item, ctor.cur_table_id, ctor.deleted_table,
                                          new_params)
            IN /\ SetLedger(L)
               /\ fault' = AssertFault(L)
    /\ ctor' = [ctor EXCEPT !.item = @ + 1]
    /\ pc' = IF ctor.item + 1 < data.num_items THEN "ctor_remove" ELSE "idle"
    /\ UNCHANGED <<inputVars, tables_ever_instantiated, hyperVars, poolVars, sampleVars,
                   run, gib, ret, budget>>

\* lines 249-250: back to the original table, or to a new one when that was deleted
CtorReassign ==
    /\ pc = "ctor_reassign" /\ fault = "none"
    /\ LET item == ctor.item
       IN \E new_params \in draw_bkt_param_prior :
            LET L == IF ~ctor.deleted_table
                     THEN assign_item_to_table(Ledger, item, ctor.cur_table_id, FALSE, new_params)
                     ELSE assign_item_to_table(Ledger, item, tables_ever_instantiated, TRUE,
                                               new_params)
            IN /\ SetLedger(L)
               /\ fault' = AssertFault(L)
    /\ tables_ever_instantiated' =
           IF ctor.deleted_table THEN tables_ever_instantiated + 1 ELSE tables_ever_instantiated
    /\ ctor' = [ctor EXCEPT !.item = @ + 1]
    /\ pc' = IF ctor.item + 1 < data.num_items THEN "ctor_remove" ELSE "idle"
    /\ UNCHANGED <<inputVars, hyperVars, poolVars, sampleVars, run, gib, ret, budget>>

Constructor ==
    \/ CtorCheck
    \/ CtorSeat
    \/ CtorSeated
    \/ CtorRemove
    \/ CtorSingleton
    \/ CtorRemoveSingleton
    \/ CtorReassign

-----------------------------------------------------------------------------
(* run_mcmc *)

\* the calls run_mcmc(num_iterations, burn, infer_gamma, infer_alpha_prime) that are
\* made: every combination of the flags, and burn below, at and above num_iterations
Calls ==
    {[num_iterations |-> 1, burn |-> 0, infer_gamma |-> TRUE, infer_alpha_prime |-> TRUE],
     [num_iterations |-> 1, burn |-> 1, infer_gamma |-> FALSE, infer_alpha_prime |-> FALSE],
     [num_iterations |-> 1, burn |-> 2, infer_gamma |-> TRUE, infer_alpha_prime |-> FALSE],
     [num_iterations |-> 2, burn |-> 0, infer_gamma |-> FALSE, infer_alpha_prime |-> TRUE],
     [num_iterations |-> 2, burn |-> 1, infer_gamma |-> TRUE, infer_alpha_prime |-> FALSE]}

\* a call of run_mcmc; a call with num_iterations = 0 returns at once and changes nothing
RunMcmc ==
    /\ pc = "idle" /\ fault = "none"
    /\ \E call \in Calls :
         /\ call.num_iterations <= MaxSweeps - budget.sweeps
         /\ run' = [NoRun EXCEPT !.num_iterations = call.num_iterations,
                                 !.burn = call.burn,
                                 !.infer_gamma = call.infer_gamma,
                                 !.infer_alpha_prime = call.infer_alpha_prime,
                                 !.base = Len(train_ll_samples)]
    /\ pc' = "hyper"
    /\ ret' = NoRet
    /\ UNCHANGED <<inputVars, ledgerVars, tables_ever_instantiated, hyperVars, poolVars,
                   sampleVars, ctor, gib, fault, budget>>

\* `!use_expert_labels && infer_alpha_prime' (line 309)
AlphaPrimeUpdateEnabled == ~use_expert_labels /\ run.infer_alpha_prime

\* `infer_gamma' (line 312)
GammaUpdateEnabled == run.infer_gamma

Moved(old, new) == IF old = new THEN 0 ELSE 1

\* lines 305-313: the hyperparameter updates of one iteration
HyperStage ==
    /\ pc = "hyper" /\ fault = "none"
    /\ LET lp0 == log_seating_prob(log_gamma, log_alpha_prime)
           keep_alpha == {[param |-> log_alpha_prime, lp |-> lp0]}
       IN \E a \in (IF AlphaPrimeUpdateEnabled
                    THEN slice_resample_wcrp_param("alpha", log_alpha_prime, log_gamma, lp0,
                                                   Fin((-10) * HyperOne), Fin(11 * HyperOne))
                    ELSE keep_alpha) :
            \E g \in (IF GammaUpdateEnabled
                      THEN slice_resample_wcrp_param("gamma", log_gamma, a.param, a.lp,
                                                     Fin((-8) * HyperOne), Fin(0))
                      ELSE {[param |-> log_gamma, lp |-> a.lp]}) :
              /\ log_alpha_prime' = a.param
              /\ log_gamma' = g.param
              /\ budget' = [budget EXCEPT !.moves = @ + Moved(log_alpha_prime, a.param)
                                                      + Moved(log_gamma, g.param)]
              /\ budget'.moves <= MaxSliceMoves
              /\ fault' = IF GammaUpdateEnabled /\ ~LogGammaPriorAssertHolds(g.param)
                          THEN "assert_log_gamma" ELSE "none"
    /\ pc' = "params"
    /\ run' = [run EXCEPT !.tables_left = DOMAIN parameters,
                           !.seating_K = GenerativeK(seating_arrangement, log_gamma)
                                         \cup GenerativeK(seating_arrangement, log_gamma')]
    /\ UNCHANGED <<inputVars, ledgerVars, tables_ever_instantiated, poolVars, sampleVars,
                   ctor, gib, ret>>

\* lines 321-338: the items of the skill, the training students that studied any of
\* them, and for each the first trial with one of them
items_assigned_to_skill(table_id) == {i \in Items : seating_arrangement[i] = table_id}

studied_any_of(student, items) == \E i \in items : ever_studied(student, i)

students_to_include(table_id) ==
    AscSeq({s \in Students : /\ s \in data.train_students
                             /\ studied_any_of(s, items_assigned_to_skill(table_id))})

SetMin(S) == CHOOSE x \in S : \A y \in S : x <= y

skill_first_exposures(table_id) ==
    LET ss == students_to_include(table_id)
    IN [k \in 1 .. Len(ss) |->
           SetMin({NumTrials(ss[k])}
                  \cup {first_encounter(ss[k], i) : i \in items_assigned_to_skill(table_id)})]

\* the record of a skill shares its storage with the draw of the pool it was copied
\* from: a slice update of the record also updates the draw
ParamStageThroughPool ==
    /\ pc = "params" /\ fault = "none"
    /\ \E table_id \in run.tables_left :
         /\ run' = [run EXCEPT !.tables_left = @ \ {table_id}]
         /\ IF SkillLLThrows(Ledger, table_id, students_to_include(table_id))
            THEN /\ fault' = "out_of_range"
                 /\ UNCHANGED <<parameters, budget, prior_samples>>
            ELSE /\ fault' = "none"
                 /\ LET sp == parameters[table_id]
                    IN \E psi \in slice_resample_bkt_parameter(sp.psi),
                          mu \in slice_resample_bkt_parameter(sp.mu),
                          pi1 \in slice_resample_bkt_parameter(sp.pi1),
                          prop0 \in slice_resample_bkt_parameter(sp.prop0) :
                         /\ parameters' = [parameters EXCEPT ![table_id] =
                                [psi |-> psi, mu |-> mu, pi1 |-> pi1, prop0 |-> prop0]]
                         /\ budget' = [budget EXCEPT !.moves =
                                @ + Moved(sp.psi, psi) + Moved(sp.mu, mu)
                                  + Moved(sp.pi1, pi1) + Moved(sp.prop0, prop0)]
                         /\ budget'.moves <= MaxSliceMoves
                         /\ prior_samples' =
                                [k \in DOMAIN prior_samples |->
                                    IF prior_samples[k] = sp THEN parameters'[table_id]
                                    ELSE prior_samples[k]]
    /\ UNCHANGED <<inputVars, seating_arrangement, table_sizes, extant_tables, trial_lookup,
                   num_used_skills, tables_ever_instantiated, hyperVars,
                   singleton_skill_data_lp, sampleVars, pc, ctor, gib, ret>>

\* lines 318-351 for one table of the iteration over `parameters': the four parameters
\* are slice-updated one after the other
ParamStage ==
    /\ pc = "params" /\ fault = "none"
    /\ \E table_id \in run.tables_left :
         /\ run' = [run EXCEPT !.tables_left = @ \ {table_id}]
         /\ IF SkillLLThrows(Ledger, table_id, students_to_include(table_id))
            THEN /\ fault' = "out_of_range"
                 /\ UNCHANGED <<parameters, budget>>
            ELSE /\ fault' = "none"
                 /\ LET sp == parameters[table_id]
                    IN \E psi \in slice_resample_bkt_parameter(sp.psi),
                          mu \in slice_resample_bkt_parameter(sp.mu),
                          pi1 \in slice_resample_bkt_parameter(sp.pi1),
                          prop0 \in slice_resample_bkt_parameter(sp.prop0) :
                         /\ parameters' = [parameters EXCEPT ![table_id] =
                                [psi |-> psi, mu |-> mu, pi1 |-> pi1, prop0 |-> prop0]]
                         /\ budget' = [budget EXCEPT !.moves =
                                @ + Moved(sp.psi, psi) + Moved(sp.mu, mu)
                                  + Moved(sp.pi1, pi1) + Moved(sp.prop0, prop0)]
                         /\ budget'.moves <= MaxSliceMoves
    /\ UNCHANGED <<inputVars, seating_arrangement, table_sizes, extant_tables, trial_lookup,
                   num_used_skills, tables_ever_instantiated, hyperVars, poolVars,
                   sampleVars, pc, ctor, gib, ret>>

\* `if (!use_expert_labels)' (line 355)
ResweepEnabled == ~use_expert_labels

\* lines 354-359: the items are shuffled and resampled one by one, or the sweep is skipped
ParamsDone ==
    /\ pc = "params" /\ fault = "none"
    /\ run.tables_left = {}
    /\ IF ResweepEnabled
       THEN /\ pc' = "sweep"
            /\ run' = [run EXCEPT !.items_left = Items]
       ELSE /\ pc' = "eval"
            /\ UNCHANGED run
    /\ UNCHANGED <<inputVars, ledgerVars, tables_ever_instantiated, hyperVars, poolVars,
                   sampleVars, ctor, gib, ret, fault, budget>>

\* the sweep has resampled every item
SweepDone ==
    /\ pc = "sweep" /\ fault = "none"
    /\ run.items_left = {}
    /\ pc' = "eval"
    /\ UNCHANGED <<inputVars, ledgerVars, tables_ever_instantiated, hyperVars, poolVars,
                   sampleVars, ctor, run, gib, ret, fault, budget>>

\* the stage without the evaluation: the value of an earlier state is kept
EvalStageWithoutEvaluation ==
    /\ pc = "eval" /\ fault = "none"
    /\ pc' = "record"
    /\ UNCHANGED <<inputVars, ledgerVars, tables_ever_instantiated, hyperVars, poolVars,
                   sampleVars, ctor, run, gib, ret, fault, budget>>

\* line 367: the training log-likelihood of the iteration
EvalStage ==
    /\ pc = "eval" /\ fault = "none"
    /\ IF FullDataThrows(Ledger, TRUE)
       THEN fault' = "out_of_range" /\ UNCHANGED run
       ELSE /\ fault' = "none"
            /\ run' = [run EXCEPT !.train_ll = full_data_log_likelihood(Ledger, TRUE)]
    /\ pc' = "record"
    /\ UNCHANGED <<inputVars, ledgerVars, tables_ever_instantiated, hyperVars, poolVars,
                   sampleVars, ctor, gib, ret, budget>>

\* `iter > burn': one more iteration is discarded
RecordsSampleAfter(iter, burn) == iter > burn

\* `iter >= burn' (line 383)
RecordsSample(iter, burn) == iter >= burn

\* the log-likelihood and the label vector are pushed, the predictions are not
record_sample_without_predictions(train_ll) ==
    /\ train_ll_samples' = Append(train_ll_samples, train_ll)
    /\ skill_label_samples' =
           Append(skill_label_samples,
                  Relabel(seating_arrangement, 0, EmptyMap, build.size_after_insert))
    /\ UNCHANGED pRT_samples

\* record_sample(train_ll) (lines 460-503): the log-likelihood is pushed (463), then the
\* label vector (473), then the predictions student by student and trial by trial (497);
\* a throw of line 489 leaves what was pushed before it
record_sample(train_ll) ==
    /\ train_ll_samples' = Append(train_ll_samples, train_ll)
    /\ skill_label_samples' =
           Append(skill_label_samples,
                  Relabel(seating_arrangement, 0, EmptyMap, build.size_after_insert))
    /\ pRT_samples' =
           [s \in Students |->
               [t \in 1 .. NumTrials(s) |->
                   IF /\ \A earlier \in Students :
                            earlier < s => ~ReplayThrows(Ledger, earlier, NumTrials(earlier))
                      /\ t <= Len(StudentPredictions(Ledger, s))
                   THEN Append(pRT_samples[s][t], StudentPredictions(Ledger, s)[t])
                   ELSE pRT_samples[s][t]]]

\* line 383 and the end of the loop body: the sample is recorded after burn-in, and the
\* next iteration starts or run_mcmc returns
RecordStage ==
    /\ pc = "record" /\ fault = "none"
    /\ IF RecordsSample(run.iter, run.burn)
       THEN /\ fault' = IF RecordThrows(Ledger) THEN "out_of_range" ELSE "none"
            /\ record_sample(run.train_ll)
       ELSE UNCHANGED <<sampleVars, fault>>
    /\ run' = [run EXCEPT !.iter = @ + 1]
    /\ budget' = [budget EXCEPT !.sweeps = @ + 1]
    /\ pc' = IF run.iter + 1 < run.num_iterations THEN "hyper" ELSE "idle"
    /\ UNCHANGED <<inputVars, ledgerVars, tables_ever_instantiated, hyperVars, poolVars,
                   ctor, gib, ret>>

-----------------------------------------------------------------------------
(* gibbs_resample_skill *)

\* lines 393-402: the item leaves its table and the beliefs of its students are cached;
\* `before' keeps the ledger as line 395 leaves it, for comparison with the ledger the
\* probes of lines 412-430 leave
GibbsBegin ==
    /\ pc = "sweep" /\ fault = "none"
    /\ \E item \in run.items_left :
         LET cur_table_id == seating_arrangement[item]
             affected_students == students_who_studied(item)
             first_exposures == all_first_encounters(item)
             L == remove_item_from_table(Ledger, item, cur_table_id).L
             throws == \E k \in 1 .. Len(affected_students) :
                          ReplayThrows(L, affected_students[k], first_exposures[k])
         IN /\ SetLedger(L)
            /\ run' = [run EXCEPT !.items_left = @ \ {item}]
            /\ fault' = IF throws THEN "out_of_range" ELSE "none"
            /\ gib' = [item |-> item, active |-> TRUE, cur_table_id |-> cur_table_id,
                       p_hat |-> IF throws THEN <<>>
                                 ELSE [k \in 1 .. Len(affected_students) |->
                                          cache_p_hat(L, affected_students[k],
                                                      first_exposures[k])],
                       keys |-> AscSeq(L.extant), probed |-> 0,
                       data_lp_with_item |-> <<>>, data_lp_without_item |-> <<>>,
                       seating_lp |-> <<>>, drawn_event |-> -1, num_extant_tables |-> 0,
                       before |-> L]
    /\ pc' = "probe"
    /\ UNCHANGED <<inputVars, tables_ever_instantiated, hyperVars, poolVars, sampleVars,
                   ctor, ret, budget>>

\* lines 417-419: the item sits at the next extant table and the table is scored
GibbsProbeAssign ==
    /\ pc = "probe" /\ fault = "none"
    /\ gib.probed < Len(gib.keys)
    /\ LET item == gib.item
           table_id == gib.keys[gib.probed + 1]
           L == assign_item_to_table(Ledger, item, table_id, FALSE, parameters[table_id])
           throws == CachedSkillLLThrows(L, table_id, students_who_studied(item), gib.p_hat)
       IN /\ SetLedger(L)
          /\ fault' = IF ~AssignAssertHolds(L) THEN "assert_num_used_skills"
                      ELSE IF throws THEN "out_of_range" ELSE "none"
          /\ gib' = IF throws THEN gib
                    ELSE [gib EXCEPT !.data_lp_with_item =
                             Append(@, cached_skill_log_likelihood(L, table_id,
                                           students_who_studied(item),
                                           all_first_encounters(item), gib.p_hat))]
    /\ pc' = "probe_remove"
    /\ UNCHANGED <<inputVars, tables_ever_instantiated, hyperVars, poolVars, sampleVars,
                   ctor, run, ret, budget>>

\* assert(generative_mode || seating_arrangement.at(item) == UNASSIGNED) of compute_K
ComputeKAssertHolds(L, item, generative_mode) == generative_mode \/ L.sa[item] = UNASSIGNED

\* the size of the table is read while the item still sits at it
old_table_candidate_with_item(L, item, table_id) ==
    [kind |-> "old_table", num_seated |-> L.sizes[table_id] + 1,
     K |-> compute_K(L.sa, log_gamma, item, table_id, FALSE)]

\* lines 426-427: the arguments of log_old_table_probability for an extant table, read
\* after the item has left it: table_sizes.at(table) and compute_K(item, table, false)
old_table_candidate(L, item, table_id) ==
    [kind |-> "old_table", num_seated |-> L.sizes[table_id],
     K |-> compute_K(L.sa, log_gamma, item, table_id, FALSE)]

\* lines 421-429: the item leaves the table again, the table is scored without it and
\* its seating weight is computed from compute_K and table_sizes.at(table)
GibbsProbeRemove ==
    /\ pc = "probe_remove" /\ fault = "none"
    /\ LET item == gib.item
           table_id == gib.keys[gib.probed + 1]
           L == remove_item_from_table(Ledger, item, table_id).L
           throws == \/ CachedSkillLLThrows(L, table_id, students_who_studied(item), gib.p_hat)
                     \/ table_id \notin DOMAIN L.sizes
       IN /\ SetLedger(L)
          /\ fault' = IF throws THEN "out_of_range"
                      ELSE IF ~ComputeKAssertHolds(L, item, FALSE) THEN "assert_compute_K"
                      ELSE "none"
          /\ gib' = IF throws THEN gib
                    ELSE [gib EXCEPT
                             !.data_lp_without_item =
                                 Append(@, cached_skill_log_likelihood(L, table_id,
                                               students_who_studied(item),
                                               all_first_encounters(item), gib.p_hat)),
                             !.seating_lp =
                                 Append(@, old_table_candidate(L, item, table_id)),
                             !.probed = @ + 1]
    /\ pc' = "probe"
    /\ UNCHANGED <<inputVars, tables_ever_instantiated, hyperVars, poolVars, sampleVars,
                   ctor, run, ret, budget>>

\* the three assertions of lines 437-439
CandidateAssertsHold(with, without, seating) ==
    /\ Len(with) = num_used_skills + NumSubsamples
    /\ Len(without) = num_used_skills + NumSubsamples
    /\ Len(seating) = num_used_skills + NumSubsamples

\* `false' for is_new_table: the item is added to a skill that is taken to exist
sit_at_skill_taken_to_exist(L, item, table_id, chosen_subsample, new_params) ==
    LET A == assign_item_to_table(L, item, table_id, FALSE, new_params)
    IN [A EXCEPT !.params = Put(A.params, A.sa[item], At(prior_samples, chosen_subsample))]

\* the new skill gets the first draw of the pool, whichever candidate was drawn
sit_at_new_skill_with_first_draw(L, item, table_id, chosen_subsample, new_params) ==
    LET A == assign_item_to_table(L, item, table_id, TRUE, new_params)
    IN [A EXCEPT !.params = Put(A.params, A.sa[item], At(prior_samples, 0))]

\* lines 447-449: the item sits down at a new skill, which gets the parameters of the
\* chosen draw of the pool
sit_at_new_skill(L, item, table_id, chosen_subsample, new_params) ==
    LET A == assign_item_to_table(L, item, table_id, TRUE, new_params)
    IN [A EXCEPT !.params = Put(A.params, A.sa[item], At(prior_samples, chosen_subsample))]

\* lines 432-456: the new-table candidates are appended, one candidate is drawn and the
\* item sits down.  Every candidate has a positive weight, so each can be drawn.
GibbsDraw ==
    /\ pc = "probe" /\ fault = "none"
    /\ gib.probed = Len(gib.keys)
    /\ LET item == gib.item
           with == gib.data_lp_with_item \o singleton_skill_data_lp[item]
           without == gib.data_lp_without_item \o [k \in 1 .. NumSubsamples |-> 0]
           seating == gib.seating_lp \o [k \in 1 .. NumSubsamples |-> [kind |-> "new_table",
                                                                      num_seated |-> 0]]
           num_extant_tables == Cardinality(extant_tables)
       IN IF ~CandidateAssertsHold(with, without, seating)
          THEN /\ fault' = "assert_candidates"
               /\ UNCHANGED <<ledgerVars, tables_ever_instantiated, gib, budget>>
          ELSE \E drawn_event \in 0 .. (Len(seating) - 1) :
                 /\ gib' = [gib EXCEPT !.data_lp_with_item = with,
                                       !.data_lp_without_item = without,
                                       !.seating_lp = seating,
                                       !.drawn_event = drawn_event,
                                       !.num_extant_tables = num_extant_tables,
                                       !.active = FALSE]
                 /\ IF drawn_event >= num_extant_tables
                    THEN \E new_params \in draw_bkt_param_prior :
                           LET chosen_subsample == drawn_event - num_extant_tables
                               L == sit_at_new_skill(Ledger, item, tables_ever_instantiated,
                                                     chosen_subsample, new_params)
                           IN /\ budget.new_tables < MaxNewTables
                              /\ SetLedger(L)
                              /\ fault' = AssertFault(L)
                              /\ tables_ever_instantiated' = tables_ever_instantiated + 1
                              /\ budget' = [budget EXCEPT !.new_tables = @ + 1]
                    ELSE LET table_id == At(gib.keys, drawn_event)
                             L == assign_item_to_table(Ledger, item, table_id, FALSE,
                                                       parameters[table_id])
                         IN /\ SetLedger(L)
                            /\ fault' = AssertFault(L)
                            /\ UNCHANGED <<tables_ever_instantiated, budget>>
    /\ pc' = "sweep"
    /\ UNCHANGED <<inputVars, hyperVars, poolVars, sampleVars, ctor, run, ret>>

-----------------------------------------------------------------------------
(* The queries *)

\* get_estimated_recall_prob(student, trial), for a trial the student has
GetEstimatedRecallProb ==
    /\ pc = "idle" /\ fault = "none"
    /\ \E student \in Students :
         \E trial \in 0 .. (NumTrials(student) - 1) :
           LET samples == At(pRT_samples[student], trial)
           IN IF samples = <<>>
              THEN fault' = "assert_pRT_samples_empty" /\ ret' = NoRet
              ELSE /\ fault' = "none"
                   /\ ret' = [op |-> "get_estimated_recall_prob", student |-> student,
                              trial |-> trial, value |-> vector_mean(samples)]
    /\ UNCHANGED <<inputVars, ledgerVars, tables_ever_instantiated, hyperVars, poolVars,
                   sampleVars, pc, ctor, run, gib, budget>>

\* get_most_likely_skill_labels()
GetMostLikelySkillLabels ==
    /\ pc = "idle" /\ fault = "none"
    /\ IF skill_label_samples = <<>>
       THEN fault' = "assert_skill_label_samples_empty" /\ ret' = NoRet
       ELSE IF Len(train_ll_samples) # Len(skill_label_samples)
            THEN fault' = "assert_sample_sizes" /\ ret' = NoRet
            ELSE /\ fault' = "none"
                 /\ ret' = [op |-> "get_most_likely_skill_labels",
                            best_sample |-> BestSample(train_ll_samples, 0, 0, 0),
                            value |-> At(skill_label_samples,
                                         BestSample(train_ll_samples, 0, 0, 0))]
    /\ UNCHANGED <<inputVars, ledgerVars, tables_ever_instantiated, hyperVars, poolVars,
                   sampleVars, pc, ctor, run, gib, budget>>

Next ==
    \/ Constructor
    \/ RunMcmc
    \/ HyperStage
    \/ ParamStage
    \/ ParamsDone
    \/ GibbsBegin
    \/ GibbsProbeAssign
    \/ GibbsProbeRemove
    \/ GibbsDraw
    \/ SweepDone
    \/ EvalStage
    \/ RecordStage
    \/ GetEstimatedRecallProb
    \/ GetMostLikelySkillLabels

Spec == Init /\ [][Next]_vars

-----------------------------------------------------------------------------
(* The partition ledger on its own: after construction, any sequence of     *)
(* remove_item_from_table and assign_item_to_table calls whose arguments    *)
(* respect the preconditions the callers keep (the item sits at the table   *)
(* it is removed from; an item is unassigned when it is assigned; the table *)
(* is new exactly when it is not extant).  `ret' remembers the last call    *)
(* and the ledger before it.                                                *)

\* a call remove_item_from_table(item, seating_arrangement[item])
LedgerRemove ==
    /\ pc = "idle" /\ fault = "none"
    /\ \E item \in Items :
         /\ seating_arrangement[item] # UNASSIGNED
         /\ LET table_id == seating_arrangement[item]
                r == remove_item_from_table(Ledger, item, table_id)
            IN /\ SetLedger(r.L)
               /\ ret' = [op |-> "remove_item_from_table", item |-> item,
                          table_id |-> table_id, deleted |-> r.deleted,
                          before |-> Ledger, round_trip |-> FALSE]
    /\ UNCHANGED <<inputVars, tables_ever_instantiated, hyperVars, poolVars, sampleVars,
                   pc, ctor, run, gib, fault, budget>>

\* a call assign_item_to_table(item, table_id, is_new_table) for an unassigned item; the
\* call is a round trip when it undoes the removal that came just before it
LedgerAssign ==
    /\ pc = "idle" /\ fault = "none"
    /\ \E item \in Items, table_id \in 1 .. tables_ever_instantiated :
         /\ seating_arrangement[item] = UNASSIGNED
         /\ table_id = tables_ever_instantiated => budget.new_tables < MaxNewTables
         /\ \E new_params \in draw_bkt_param_prior :
              LET is_new_table == table_id \notin extant_tables
                  L == assign_item_to_table(Ledger, item, table_id, is_new_table, new_params)
                  round_trip == /\ ret.op = "remove_item_from_table"
                                /\ ret.item = item
                                /\ ret.table_id = table_id
              IN /\ SetLedger(L)
                 /\ fault' = AssertFault(L)
                 /\ ret' = [op |-> "assign_item_to_table", item |-> item,
                            table_id |-> table_id, deleted |-> FALSE,
                            before |-> IF round_trip THEN ret.before ELSE Ledger,
                            round_trip |-> round_trip]
         /\ IF table_id = tables_ever_instantiated
            THEN /\ tables_ever_instantiated' = tables_ever_instantiated + 1
                 /\ budget' = [budget EXCEPT !.new_tables = @ + 1]
            ELSE UNCHANGED <<tables_ever_instantiated, budget>>
    /\ UNCHANGED <<inputVars, hyperVars, poolVars, sampleVars, pc, ctor, run, gib>>

NextLedger ==
    \/ Constructor
    \/ LedgerRemove
    \/ LedgerAssign

SpecLedger == Init /\ [][NextLedger]_vars

-----------------------------------------------------------------------------
(* The chain beside a second construction whose input differs only in the   *)
(* trial sequences of the held-out students.  The rewrite step moves from   *)
(* the one input to the other while no sample has been recorded; the chain  *)
(* variables stay as they are, so that the two chains are compared on the   *)
(* same history of random draws.                                            *)

\* the trial sequences (items, recalls) a held-out student may have instead
HeldOutVariants ==
    {<< <<1, 0>>, <<TRUE, FALSE>> >>,
     << <<0, 0>>, <<FALSE, FALSE>> >>,
     << <<1>>, <<FALSE>> >>}

\* everything the constructor and the samplers take from the dataset in the current
\* state: the expert labels, the per-item student lists with their first encounters and
\* trial lists, the students and first exposures of every skill with the likelihood of
\* the skill, the cached beliefs and cached likelihoods of a resampled item, and the
\* training log-likelihood (<<>> where the evaluation throws)
ChainReads ==
    [shape |-> <<data.num_students, data.num_items, data.provided_skill_assignments,
                 data.train_students, num_expert_provided_skills>>,
     who |-> [i \in Items |-> students_who_studied(i)],
     firsts |-> [i \in Items |-> all_first_encounters(i)],
     trials |-> [i \in Items |->
                    [k \in 1 .. Len(students_who_studied(i)) |->
                        trials_studied(students_who_studied(i)[k], i)]],
     include |-> [t \in DOMAIN parameters |-> students_to_include(t)],
     exposures |-> [t \in DOMAIN parameters |-> skill_first_exposures(t)],
     skill_ll |-> [t \in DOMAIN parameters |->
                      IF SkillLLThrows(Ledger, t, students_to_include(t)) THEN <<>>
                      ELSE <<skill_log_likelihood(Ledger, t, students_to_include(t),
                                                  skill_first_exposures(t))>>],
     beliefs |-> [i \in Items |->
                     [k \in 1 .. Len(students_who_studied(i)) |->
                         IF ReplayThrows(Ledger, students_who_studied(i)[k],
                                         all_first_encounters(i)[k]) THEN <<>>
                         ELSE <<cache_p_hat(Ledger, students_who_studied(i)[k],
                                            all_first_encounters(i)[k])>>]],
     cached_ll |-> IF ~gib.active \/ gib.p_hat = <<>> THEN <<>>
                   ELSE [t \in extant_tables |->
                            IF CachedSkillLLThrows(Ledger, t, students_who_studied(gib.item),
                                                   gib.p_hat) THEN <<>>
                            ELSE <<cached_skill_log_likelihood(Ledger, t,
                                       students_who_studied(gib.item),
                                       all_first_encounters(gib.item), gib.p_hat)>>],
     train_ll |-> IF FullDataThrows(Ledger, TRUE) THEN <<>>
                  ELSE <<full_data_log_likelihood(Ledger, TRUE)>>]

\* the same construction with other item_sequences / recall_sequences for one student
\* that is not in train_students; pRT_samples is sized by the sequences (line 175).
\* `ret' remembers what the chain took from the dataset before the step.
HeldOutRewrite ==
    /\ fault = "none"
    /\ pc # "rewritten"
    /\ skill_label_samples = <<>>
    /\ \E student \in Students \ data.train_students, v \in HeldOutVariants :
         /\ data' = [data EXCEPT !.item_sequences[student + 1] = v[1],
                                 !.recall_sequences[student + 1] = v[2]]
         /\ data' # data
    /\ pRT_samples' = [s \in Students |->
                          [t \in 1 .. Len(At(data'.item_sequences, s)) |-> <<>>]]
    /\ ret' = [op |-> "held_out_rewrite", reads |-> ChainReads, pc |-> pc, ret |-> ret]
    /\ pc' = "rewritten"
    /\ UNCHANGED <<build, beta, ledgerVars, tables_ever_instantiated, hyperVars, poolVars,
                   skill_label_samples, train_ll_samples, ctor, run, gib, fault, budget>>

\* the chain goes on from where it was
HeldOutResume ==
    /\ pc = "rewritten"
    /\ pc' = ret.pc
    /\ ret' = ret.ret
    /\ UNCHANGED <<inputVars, ledgerVars, tables_ever_instantiated, hyperVars, poolVars,
                   sampleVars, ctor, run, gib, fault, budget>>

InitHeldOut == Init /\ data.train_students # Students

NextHeldOut ==
    \/ Constructor
    \/ RunMcmc
    \/ HyperStage
    \/ ParamStage
    \/ ParamsDone
    \/ GibbsBegin
    \/ GibbsProbeAssign
    \/ GibbsProbeRemove
    \/ GibbsDraw
    \/ SweepDone
    \/ EvalStage
    \/ RecordStage
    \/ HeldOutRewrite
    \/ HeldOutResume

SpecHeldOut == InitHeldOut /\ [][NextHeldOut]_vars

-----------------------------------------------------------------------------
(* The resweep with three items: a chain with beta = 0 over one student and  *)
(* three items, two of which share an expert label, so that an item can be  *)
(* resampled while two skills are active without it.  One iteration is left *)
(* of the iterations a chain makes.                                         *)

DataThreeItems ==
    [num_students |-> 1, num_items |-> 3,
     item_sequences |-> << <<0, 1, 2>> >>,
     recall_sequences |-> << <<TRUE, FALSE, TRUE>> >>,
     provided_skill_assignments |-> <<0, 0, 1>>, train_students |-> {0}]

InitSweep ==
    /\ data = DataThreeItems
    /\ build \in [size_after_insert : BOOLEAN]
    /\ beta = 0
    /\ seating_arrangement = [i \in Items |-> UNASSIGNED]
    /\ parameters = EmptyMap
    /\ table_sizes = EmptyMap
    /\ extant_tables = {}
    /\ trial_lookup = EmptyMap
    /\ num_used_skills = 0
    /\ tables_ever_instantiated = UNASSIGNED + 1
    /\ log_gamma = LogOneMinusBeta(beta)
    /\ log_alpha_prime = Fin(InitLogAlphaPrime)
    /\ prior_samples = <<>>
    /\ singleton_skill_data_lp = EmptyMap
    /\ pRT_samples = [s \in Students |-> [t \in 1 .. NumTrials(s) |-> <<>>]]
    /\ skill_label_samples = <<>>
    /\ train_ll_samples = <<>>
    /\ pc = "ctor_check"
    /\ ctor = [item |-> 0, skills_encountered |-> {}, cur_table_id |-> UNASSIGNED,
               deleted_table |-> FALSE, tmp_table_id |-> UNASSIGNED]
    /\ run = NoRun
    /\ gib = NoGib
    /\ ret = NoRet
    /\ fault = "none"
    /\ budget = [sweeps |-> MaxSweeps - 1, moves |-> 0, new_tables |-> 0]

NextSweep ==
    \/ Constructor
    \/ RunMcmc
    \/ HyperStage
    \/ ParamStage
    \/ ParamsDone
    \/ GibbsBegin
    \/ GibbsProbeAssign
    \/ GibbsProbeRemove
    \/ GibbsDraw
    \/ SweepDone
    \/ EvalStage
    \/ RecordStage

SpecSweep == InitSweep /\ [][NextSweep]_vars

-----------------------------------------------------------------------------
(* The parameter updates step by step: the loop of lines 318-351 with each  *)
(* slice_resample_bkt_parameter call unfolded into the passes of its three  *)
(* loops.  `ret' is the frame of the call: the skill, the pointers that are *)
(* left of the shuffled vector, cur_ll, the locals of the call, the values  *)
(* of *param at which skill_log_likelihood was called, and the passes made  *)
(* by the expansion loop under way.  The chain is followed up to the end of *)
(* the parameter stage of an iteration.                                     *)

\* orders generator->shuffle(param_ptrs) can leave the four pointers in (line 346)
ShuffleOrders == {<<"psi", "mu", "pi1", "prop0">>, <<"prop0", "pi1", "mu", "psi">>}

\* initial_bracket_width (line 852), in 1/One units
BracketWidth == (ONEMINUSTOL - TOL) \div 10

\* skill_log_likelihood(table_id, students_to_include, first_exposures) with the
\* parameter records P
SliceLL(P) ==
    skill_log_likelihood([Ledger EXCEPT !.params = P], ret.table_id,
                         students_to_include(ret.table_id),
                         skill_first_exposures(ret.table_id))

\* the value returned is one unit below the likelihood of the proposal
slice_return_off_by_one(proposal_ll) == proposal_ll - 1

\* `return proposal_ll' (lines 876 and 880)
slice_return(proposal_ll) == proposal_ll

\* the bound is tested against the end of the bracket of the pass before
left_end_in_bounds_late(x_l, lower_bound) == x_l + BracketWidth >= lower_bound

\* `x_l >= lower_bound', the first operand of the && of line 860: the likelihood is
\* evaluated only when it holds
left_end_in_bounds(x_l, lower_bound) == x_l >= lower_bound

\* lines 318-347: the next skill of the iteration over `parameters', the shuffle of its
\* four pointers and the likelihood of the skill before the updates
SliceTable ==
    /\ pc = "params" /\ fault = "none"
    /\ \E table_id \in run.tables_left :
         /\ run' = [run EXCEPT !.tables_left = @ \ {table_id}]
         /\ IF SkillLLThrows(Ledger, table_id, students_to_include(table_id))
            THEN /\ fault' = "out_of_range"
                 /\ UNCHANGED <<pc, ret>>
            ELSE /\ fault' = "none"
                 /\ pc' = "slice_call"
                 /\ \E order \in ShuffleOrders :
                      ret' = [op |-> "slice_resample_bkt_parameter", table_id |-> table_id,
                              param_ptrs |-> order,
                              cur_ll |-> skill_log_likelihood(Ledger, table_id,
                                             students_to_include(table_id),
                                             skill_first_exposures(table_id)),
                              cur_val |-> 0, jittered_cur_ll |-> 0, x_l |-> 0, x_r |-> 0,
                              evaluated_at |-> {}, passes |-> 0]
    /\ UNCHANGED <<inputVars, ledgerVars, tables_ever_instantiated, hyperVars, poolVars,
                   sampleVars, ctor, gib, budget>>

\* lines 349 and 850-859: the call for the next pointer; the bracket is placed around the
\* current value and *param is set to its left end.  `drop' is -log(sampleUniform01()) of
\* line 854 in the units of the log-likelihoods, `offset' is split_location *
\* initial_bracket_width in 1/One units
SliceCall ==
    /\ pc = "slice_call" /\ fault = "none"
    /\ LET param == Head(ret.param_ptrs)
           cur_val == parameters[ret.table_id][param]
       IN \E drop \in {4, 64}, offset \in {0} :
            LET x_l == IF TOL < cur_val - offset THEN cur_val - offset ELSE TOL
                x_r == Min(ONEMINUSTOL, cur_val + (BracketWidth - offset))
            IN /\ ret' = [ret EXCEPT !.cur_val = cur_val,
                                     !.jittered_cur_ll = ret.cur_ll - drop,
                                     !.x_l = x_l, !.x_r = x_r,
                                     !.evaluated_at = {}, !.passes = 0]
               /\ parameters' = [parameters EXCEPT ![ret.table_id][param] = x_l]
    /\ pc' = "slice_left"
    /\ UNCHANGED <<inputVars, seating_arrangement, table_sizes, extant_tables, trial_lookup,
                   num_used_skills, tables_ever_instantiated, hyperVars, poolVars,
                   sampleVars, ctor, run, gib, fault, budget>>

\* lines 860-866: a pass of the left expansion loop, or its exit: the left end is clamped
\* and *param is set to the right end
SliceLeft ==
    /\ pc = "slice_left" /\ fault = "none"
    /\ LET param == Head(ret.param_ptrs)
           evaluated == IF left_end_in_bounds(ret.x_l, TOL)
                        THEN {parameters[ret.table_id][param]} ELSE {}
       IN IF left_end_in_bounds(ret.x_l, TOL) /\ SliceLL(parameters) > ret.jittered_cur_ll
          THEN /\ ret' = [ret EXCEPT !.x_l = @ - BracketWidth,
                                     !.evaluated_at = @ \cup evaluated,
                                     !.passes = @ + 1]
               /\ parameters' = [parameters EXCEPT ![ret.table_id][param] =
                                                       ret.x_l - BracketWidth]
               /\ pc' = "slice_left"
          ELSE /\ ret' = [ret EXCEPT !.x_l = IF @ < TOL THEN TOL ELSE @,
                                     !.evaluated_at = @ \cup evaluated,
                                     !.passes = 0]
               /\ parameters' = [parameters EXCEPT ![ret.table_id][param] = ret.x_r]
               /\ pc' = "slice_right"
    /\ UNCHANGED <<inputVars, seating_arrangement, table_sizes, extant_tables, trial_lookup,
                   num_used_skills, tables_ever_instantiated, hyperVars, poolVars,
                   sampleVars, ctor, run, gib, fault, budget>>

\* lines 867-871: a pass of the right expansion loop, or its exit: the right end is
\* clamped (*param keeps the value it has until the first proposal)
SliceRight ==
    /\ pc = "slice_right" /\ fault = "none"
    /\ LET param == Head(ret.param_ptrs)
           evaluated == IF ret.x_r <= ONEMINUSTOL THEN {parameters[ret.table_id][param]}
                        ELSE {}
       IN IF ret.x_r <= ONEMINUSTOL /\ SliceLL(parameters) > ret.jittered_cur_ll
          THEN /\ ret' = [ret EXCEPT !.x_r = @ + BracketWidth,
                                     !.evaluated_at = @ \cup evaluated,
                                     !.passes = @ + 1]
               /\ parameters' = [parameters EXCEPT ![ret.table_id][param] =
                                                       ret.x_r + BracketWidth]
               /\ pc' = "slice_right"
          ELSE /\ ret' = [ret EXCEPT !.x_r = Min(@, ONEMINUSTOL),
                                     !.evaluated_at = @ \cup evaluated]
               /\ UNCHANGED parameters
               /\ pc' = "slice_shrink"
    /\ UNCHANGED <<inputVars, seating_arrangement, table_sizes, extant_tables, trial_lookup,
                   num_used_skills, tables_ever_instantiated, hyperVars, poolVars,
                   sampleVars, ctor, run, gib, fault, budget>>

\* lines 873-882: a pass of the shrinkage loop.  A proposal x_l + (x_r - x_l) * u is a
\* point of the grid between the ends of the bracket, the ends included (u = 0, and u so
\* close to 1 that the sum rounds to x_r).  An accepted proposal, or one at the current
\* value, ends the call: its likelihood is returned and becomes cur_ll (line 349)
SliceShrink ==
    /\ pc = "slice_shrink" /\ fault = "none"
    /\ LET param == Head(ret.param_ptrs)
       IN \E proposal \in ret.x_l .. ret.x_r :
            LET P == [parameters EXCEPT ![ret.table_id][param] = proposal]
                proposal_ll == SliceLL(P)
                returns == proposal_ll > ret.jittered_cur_ll
                           \/ (~(proposal > ret.cur_val) /\ ~(proposal < ret.cur_val))
            IN /\ parameters' = P
               /\ IF returns
                  THEN /\ ret' = [ret EXCEPT !.cur_ll = slice_return(proposal_ll),
                                             !.param_ptrs = Tail(@),
                                             !.evaluated_at = @ \cup {proposal}]
                       /\ pc' = IF Tail(ret.param_ptrs) = <<>> THEN "params" ELSE "slice_call"
                       /\ budget' = [budget EXCEPT !.moves = @ + Moved(ret.cur_val, proposal)]
                       /\ budget'.moves <= MaxSliceMoves
                  ELSE /\ ret' = [ret EXCEPT
                                     !.x_r = IF proposal > ret.cur_val THEN proposal ELSE @,
                                     !.x_l = IF proposal > ret.cur_val THEN @ ELSE proposal,
                                     !.evaluated_at = @ \cup {proposal}]
                       /\ pc' = "slice_shrink"
                       /\ UNCHANGED budget
    /\ UNCHANGED <<inputVars, seating_arrangement, table_sizes, extant_tables, trial_lookup,
                   num_used_skills, tables_ever_instantiated, hyperVars, poolVars,
                   sampleVars, ctor, run, gib, fault>>

\* two items of one expert label, beta = 0 or 1, and one iteration left of those a chain
\* makes; no sample is recorded in this stretch, so the order of evaluation of line 470
\* plays no part
InitSlice ==
    /\ data = DataB
    /\ build = [size_after_insert |-> TRUE]
    /\ beta \in BetaInputs
    /\ seating_arrangement = [i \in Items |-> UNASSIGNED]
    /\ parameters = EmptyMap
    /\ table_sizes = EmptyMap
    /\ extant_tables = {}
    /\ trial_lookup = EmptyMap
    /\ num_used_skills = 0
    /\ tables_ever_instantiated = UNASSIGNED + 1
    /\ log_gamma = LogOneMinusBeta(beta)
    /\ log_alpha_prime = Fin(InitLogAlphaPrime)
    /\ prior_samples = <<>>
    /\ singleton_skill_data_lp = EmptyMap
    /\ pRT_samples = [s \in Students |-> [t \in 1 .. NumTrials(s) |-> <<>>]]
    /\ skill_label_samples = <<>>
    /\ train_ll_samples = <<>>
    /\ pc = "ctor_check"
    /\ ctor = [item |-> 0, skills_encountered |-> {}, cur_table_id |-> UNASSIGNED,
               deleted_table |-> FALSE, tmp_table_id |-> UNASSIGNED]
    /\ run = NoRun
    /\ gib = NoGib
    /\ ret = NoRet
    /\ fault = "none"
    /\ budget = [sweeps |-> MaxSweeps - 1, moves |-> 0, new_tables |-> 0]

NextSlice ==
    \/ Constructor
    \/ RunMcmc
    \/ HyperStage
    \/ SliceTable
    \/ SliceCall
    \/ SliceLeft
    \/ SliceRight
    \/ SliceShrink
    \/ ParamsDone

SpecSlice == InitSlice /\ [][NextSlice]_vars

-----------------------------------------------------------------------------
(* compute_K on its own: three items with any expert labels, a seating the  *)
(* chain can be at when compute_K is called (one item unassigned during a   *)
(* resweep, every item seated in a replay of log_seating_prob), and a gamma *)
(* in reach.  `ret' holds the call and its value.                           *)

KData(labels) ==
    [num_students |-> 1, num_items |-> 3,
     item_sequences |-> << <<0, 1, 2>> >>,
     recall_sequences |-> << <<TRUE, FALSE, TRUE>> >>,
     provided_skill_assignments |-> labels, train_students |-> {0}]

EmptyLedger == [sa |-> [i \in Items |-> UNASSIGNED], params |-> EmptyMap, sizes |-> EmptyMap,
                extant |-> {}, tl |-> EmptyMap, nus |-> 0]

\* the ledger after assign_item_to_table for every seated item of sa, in item order
RECURSIVE SeatAll(_, _, _)
SeatAll(L, sa, item) ==
    IF item >= data.num_items THEN L
    ELSE IF sa[item] = UNASSIGNED THEN SeatAll(L, sa, item + 1)
    ELSE SeatAll(assign_item_to_table(L, item, sa[item], sa[item] \notin L.extant,
                                      CHOOSE sp \in draw_bkt_param_prior : TRUE),
                 sa, item + 1)

InitK ==
    /\ data \in {KData(labels) : labels \in [1 .. 3 -> 0 .. 2]}
    /\ build = [size_after_insert |-> FALSE]
    /\ beta \in BetaInputs
    /\ log_gamma \in (IF beta = One THEN {NegInf} ELSE {Fin(0), Fin(-HyperOne), Fin(-4 * HyperOne)})
    /\ \E sa \in [Items -> 0 .. 3] :
         /\ Cardinality({i \in Items : sa[i] = UNASSIGNED}) <= 1
         /\ use_expert_labels => \A i \in Items : sa[i] = 1 + ExpertLabel(i)
         /\ LET L == SeatAll(EmptyLedger, sa, 0)
            IN /\ seating_arrangement = L.sa
               /\ parameters = L.params
               /\ table_sizes = L.sizes
               /\ extant_tables = L.extant
               /\ trial_lookup = L.tl
               /\ num_used_skills = L.nus
    /\ tables_ever_instantiated = UNASSIGNED + 1 + num_expert_provided_skills + 1 + 3
    /\ log_alpha_prime = Fin(InitLogAlphaPrime)
    /\ prior_samples = <<>>
    /\ singleton_skill_data_lp = EmptyMap
    /\ pRT_samples = [s \in Students |-> [t \in 1 .. NumTrials(s) |-> <<>>]]
    /\ skill_label_samples = <<>>
    /\ train_ll_samples = <<>>
    /\ pc = "idle"
    /\ ctor = [item |-> data.num_items, skills_encountered |-> {}, cur_table_id |-> UNASSIGNED,
               deleted_table |-> FALSE, tmp_table_id |-> UNASSIGNED]
    /\ run = NoRun
    /\ gib = NoGib
    /\ ret = NoRet
    /\ fault = "none"
    /\ budget = [sweeps |-> 0, moves |-> 0, new_tables |-> 0]

\* a call compute_K(item, table_id, generative_mode) as gibbs_resample_skill (line 428)
\* and log_seating_prob (line 756) make it
ComputeK ==
    /\ \E item \in Items, table_id \in extant_tables, generative_mode \in BOOLEAN :
         /\ IF generative_mode
            THEN /\ \A i \in Items : seating_arrangement[i] # UNASSIGNED
                 /\ \E j \in 0 .. (item - 1) : seating_arrangement[j] = table_id
            ELSE /\ ~use_expert_labels
                 /\ seating_arrangement[item] = UNASSIGNED
         /\ ret' = [op |-> "compute_K", item |-> item, table_id |-> table_id,
                    generative_mode |-> generative_mode,
                    K |-> compute_K(seating_arrangement, log_gamma, item, table_id,
                                    generative_mode)]
    /\ UNCHANGED <<inputVars, ledgerVars, tables_ever_instantiated, hyperVars, poolVars,
                   sampleVars, pc, ctor, run, gib, fault, budget>>

NextK == ComputeK

SpecK == InitK /\ [][NextK]_vars

-----------------------------------------------------------------------------
(* Properties *)

ItemsAt(sa, table_id) == {i \in Items : sa[i] = table_id}

TrialsAt(sa, student, table_id) ==
    {trial \in 0 .. (NumTrials(student) - 1) : sa[ItemAt(student, trial)] = table_id}

IsPrefix(a, b) == Len(a) <= Len(b) /\ SubSeq(b, 1, Len(a)) = a

NonNeg(x) == IF x < 0 THEN 0 ELSE x

\* C1: in every chain state num_used_skills is the number of skills holding an item,
\* table_sizes, parameters, trial_lookup and extant_tables have the same keys, every
\* recorded size is positive and the assertion of assign_item_to_table has not failed
C1_RegistriesAgree ==
    /\ fault # "assert_num_used_skills"
    /\ num_used_skills = Cardinality({seating_arrangement[i] : i \in Items} \ {UNASSIGNED})
    /\ DOMAIN table_sizes = extant_tables
    /\ DOMAIN parameters = extant_tables
    /\ DOMAIN trial_lookup = extant_tables
    /\ num_used_skills = Cardinality(DOMAIN table_sizes)
    /\ \A t \in DOMAIN table_sizes : table_sizes[t] > 0

\* a sweep in which gibbs_resample_skill has opened a skill next to the expert one
C1_Witness ==
    /\ data = DataB
    /\ pc = "sweep"
    /\ num_used_skills = 2
    /\ (tables_ever_instantiated - 1) \in extant_tables

\* C2: once the constructor, a gibbs_resample_skill call or run_mcmc has returned every
\* item sits at an active skill, every size is the number of items of the skill and the
\* sizes sum to num_items; while gibbs_resample_skill(i) runs only i can be unassigned,
\* and the trials cache_p_hat replays and the lookups of skill_log_likelihood never meet
\* an unassigned item
C2_ItemsAssigned ==
    /\ pc \in {"idle", "hyper", "params", "sweep", "eval", "record"} =>
          /\ \A i \in Items : /\ seating_arrangement[i] # UNASSIGNED
                              /\ seating_arrangement[i] \in extant_tables
          /\ \A t \in extant_tables :
                /\ t \in DOMAIN table_sizes
                /\ table_sizes[t] = Cardinality(ItemsAt(seating_arrangement, t))
          /\ LET keys == AscSeq(extant_tables)
             IN SeqSum([k \in 1 .. Len(keys) |-> GetOrZero(table_sizes, keys[k])])
                   = data.num_items
    /\ pc \in {"probe", "probe_remove"} =>
          /\ \A i \in Items \ {gib.item} : seating_arrangement[i] # UNASSIGNED
          /\ \A s \in StudentSet(gib.item) :
                \A trial \in 0 .. (first_encounter(s, gib.item) - 1) :
                   seating_arrangement[ItemAt(s, trial)] # UNASSIGNED
    /\ fault # "out_of_range"

\* gibbs_resample_skill has scored every extant table for an item that is unassigned,
\* after an earlier call opened a skill and returned
C2_Witness ==
    /\ pc = "probe"
    /\ seating_arrangement[gib.item] = UNASSIGNED
    /\ gib.probed = Len(gib.keys)
    /\ gib.probed >= 1
    /\ budget.new_tables = 1

\* C3: for every active skill t and student s, trial_lookup[t][s] is the ascending list
\* of exactly the trials of s whose item sits at t, and s has an entry exactly when
\* there is such a trial
C3_TrialLookupExact ==
    \A t \in extant_tables :
       /\ t \in DOMAIN trial_lookup
       /\ \A s \in Students :
             LET here == IF s \in data.train_students
                         THEN TrialsAt(seating_arrangement, s, t) ELSE {}
             IN /\ (s \in DOMAIN trial_lookup[t]) <=> (here # {})
                /\ s \in DOMAIN trial_lookup[t] => trial_lookup[t][s] = AscSeq(here)

\* an assignment that is no round trip has merged the trials of two items of student 0
C3_Witness ==
    /\ ret.op = "assign_item_to_table"
    /\ ~ret.round_trip
    /\ ret.item = 1
    /\ budget.new_tables = 1
    /\ 0 \in DOMAIN trial_lookup[ret.table_id]
    /\ trial_lookup[ret.table_id][0] = <<0, 1, 2>>

\* C4: remove_item_from_table(i, t) followed at once by assign_item_to_table(i, t)
\* restores the assignment of every item, the size of t, the active set and the trial
\* lists of t
C4_RoundTripRestores ==
    (ret.op = "assign_item_to_table" /\ ret.round_trip) =>
        /\ fault = "none"
        /\ seating_arrangement = ret.before.sa
        /\ ret.table_id \in DOMAIN table_sizes
        /\ table_sizes[ret.table_id] = ret.before.sizes[ret.table_id]
        /\ extant_tables = ret.before.extant
        /\ ret.table_id \in DOMAIN trial_lookup
        /\ trial_lookup[ret.table_id] = ret.before.tl[ret.table_id]

\* item 1 has left the skill it shares with item 0 and come back: its trial went back
\* between the two trials of item 0
C4_Witness ==
    /\ ret.op = "assign_item_to_table"
    /\ ret.round_trip
    /\ ret.item = 1
    /\ table_sizes[ret.table_id] = 2
    /\ trial_lookup[ret.table_id][0] = <<0, 1, 2>>

\* C5: remove_item_from_table(i, t) returns true exactly when i was the last item of t,
\* and then the size, the parameters and the trial lists of t are gone and t is no
\* longer active; otherwise the parameters of t are unchanged, its size is one less and
\* every list of t has lost exactly the trials of i
C5_RemoveContract ==
    ret.op = "remove_item_from_table" =>
        LET t == ret.table_id
            B == ret.before
        IN /\ ret.deleted <=> (ItemsAt(B.sa, t) = {ret.item})
           /\ seating_arrangement[ret.item] = UNASSIGNED
           /\ ret.deleted =>
                 /\ t \notin DOMAIN table_sizes
                 /\ t \notin DOMAIN parameters
                 /\ t \notin DOMAIN trial_lookup
                 /\ t \notin extant_tables
           /\ ~ret.deleted =>
                 /\ t \in extant_tables
                 /\ parameters[t] = B.params[t]
                 /\ table_sizes[t] = B.sizes[t] - 1
                 /\ \A s \in Students :
                       LET old == IF s \in DOMAIN B.tl[t] THEN B.tl[t][s] ELSE <<>>
                           new == IF s \in DOMAIN trial_lookup[t]
                                  THEN trial_lookup[t][s] ELSE <<>>
                           kept(trial) == ItemAt(s, trial) # ret.item
                       IN new = SelectSeq(old, kept)

\* item 1 has left the skill it shared with item 0, whose list for student 0 held the
\* trial of item 1 between the trials of item 0
C5_Witness ==
    /\ ret.op = "remove_item_from_table"
    /\ ~ret.deleted
    /\ ret.item = 1
    /\ ret.before.tl[ret.table_id][0] = <<0, 1, 2>>
    /\ trial_lookup[ret.table_id][0] = <<0, 2>>

\* C6: with beta = 1 no step of run_mcmc changes log_gamma or log_alpha_prime, whatever
\* infer_gamma and infer_alpha_prime are
C6_HyperparametersFrozen ==
    [][beta = One =>
          (log_gamma' = log_gamma /\ log_alpha_prime' = log_alpha_prime)]_vars

\* a call with both flags set has returned on a chain built with beta = 1
C6_Witness ==
    /\ beta = One
    /\ pc = "idle"
    /\ run.iter = 1
    /\ run.infer_gamma
    /\ run.infer_alpha_prime
    /\ log_gamma = NegInf

\* the label of an item when the skills are numbered from 0 in the order in which the
\* expert labels first appear
ExpertGrouping(item) ==
    LET first == CHOOSE j \in 0 .. item :
                    /\ ExpertLabel(j) = ExpertLabel(item)
                    /\ \A k \in 0 .. (j - 1) : ExpertLabel(k) # ExpertLabel(item)
    IN Cardinality({ExpertLabel(k) : k \in 0 .. (first - 1)})

\* C7: with beta = 1 run_mcmc leaves every item at the skill of its expert label and the
\* active set as the constructor made it, and every retained label vector is the
\* grouping by expert label numbered from 0 (two items labelled 0 give [0, 0])
C7_ExpertPartitionKept ==
    (beta = One /\ pc \notin {"ctor_check", "ctor_seat"}) =>
        /\ \A i \in Items : seating_arrangement[i] = 1 + ExpertLabel(i)
        /\ extant_tables = {1 + ExpertLabel(i) : i \in Items}
        /\ \A k \in 1 .. Len(skill_label_samples) :
              skill_label_samples[k] = [n \in 1 .. data.num_items |-> ExpertGrouping(n - 1)]

\* C8: record_sample runs in the step that ends an iteration, exactly when the index of
\* the iteration is at least burn; a call has appended max(0, iterations done - burn)
\* samples to the base it started from, max(0, N - B) when it returns, and the samples
\* already retained stay as they are
C8_CountsSamples ==
    /\ Len(train_ll_samples) = run.base + NonNeg(run.iter - run.burn)
    /\ Len(skill_label_samples) = Len(train_ll_samples)
    /\ \A s \in Students : \A t \in 1 .. NumTrials(s) :
          Len(pRT_samples[s][t]) = Len(train_ll_samples)
    /\ pc = "idle" =>
          /\ run.iter = run.num_iterations
          /\ Len(train_ll_samples)
                = run.base + NonNeg(run.num_iterations - run.burn)

C8_KeepsSamples ==
    /\ IsPrefix(train_ll_samples, train_ll_samples')
    /\ IsPrefix(skill_label_samples, skill_label_samples')
    /\ \A s \in Students : \A t \in 1 .. NumTrials(s) :
          IsPrefix(pRT_samples[s][t], pRT_samples'[s][t])
    /\ Len(train_ll_samples') # Len(train_ll_samples) =>
          /\ pc = "record"
          /\ run.iter >= run.burn
          /\ Len(train_ll_samples') = Len(train_ll_samples) + 1
    /\ (pc = "record" /\ pc' # "record" /\ run.iter >= run.burn) =>
          Len(train_ll_samples') = Len(train_ll_samples) + 1

C8_RecordsAfterBurn == []C8_CountsSamples /\ [][C8_KeepsSamples]_vars

\* run_mcmc(2, 1, ...) has returned with the one sample of its second iteration
C8_Witness ==
    /\ pc = "idle"
    /\ run.num_iterations = 2
    /\ run.burn = 1
    /\ run.iter = 2
    /\ Len(train_ll_samples) = 1

\* C9: get_estimated_recall_prob fails on its assertion exactly when no sample has been
\* recorded; once a sample is recorded every trial of every student, in training or
\* held out, has one prediction per sample and the call returns their mean
C9_RecallEstimate ==
    /\ fault = "assert_pRT_samples_empty" => train_ll_samples = <<>>
    /\ \A s \in Students : \A t \in 1 .. NumTrials(s) :
          (pRT_samples[s][t] = <<>>) <=> (train_ll_samples = <<>>)
    /\ ret.op = "get_estimated_recall_prob" =>
          LET samples == At(pRT_samples[ret.student], ret.trial)
              n == Len(train_ll_samples)
          IN /\ n > 0
             /\ Len(samples) = n
             /\ ret.value * n <= SeqSum(samples)
             /\ SeqSum(samples) < (ret.value + 1) * n

\* the estimate of a trial of a held-out student over two samples that differ
C9_Witness ==
    /\ ret.op = "get_estimated_recall_prob"
    /\ ret.student \notin data.train_students
    /\ Len(train_ll_samples) = 2
    /\ LET samples == At(pRT_samples[ret.student], ret.trial)
       IN samples[1] # samples[2]

\* C10: get_most_likely_skill_labels returns the label vector of the earliest retained
\* sample whose training log-likelihood is the maximum, and the call changes nothing of
\* the chain or of the samples
C10_ReturnsBest ==
    ret.op = "get_most_likely_skill_labels" =>
        LET n == Len(train_ll_samples)
            k == ret.best_sample + 1
        IN /\ n > 0
           /\ Len(skill_label_samples) = n
           /\ k \in 1 .. n
           /\ ret.value = skill_label_samples[k]
           /\ \A j \in 1 .. n : train_ll_samples[j] <= train_ll_samples[k]
           /\ \A j \in 1 .. (k - 1) : train_ll_samples[j] < train_ll_samples[k]

C10_QueryChangesNothing ==
    (ret'.op = "get_most_likely_skill_labels" /\ ret' # ret) =>
        /\ UNCHANGED <<ledgerVars, tables_ever_instantiated, hyperVars, poolVars, sampleVars>>
        /\ UNCHANGED <<inputVars, pc, run, gib, ctor>>

C10_MostLikelyLabels == []C10_ReturnsBest /\ [][C10_QueryChangesNothing]_vars

\* the second of two samples with different partitions has the higher log-likelihood
C10_Witness ==
    /\ ret.op = "get_most_likely_skill_labels"
    /\ Len(train_ll_samples) = 2
    /\ ret.best_sample = 1
    /\ skill_label_samples[1] # skill_label_samples[2]

\* the last retained label vector, with 0-based item indices
LastLabels == skill_label_samples[Len(skill_label_samples)]

\* the step that ended the last iteration recorded a sample, and nothing has moved since
JustRecorded ==
    /\ pc \in {"idle", "hyper"}
    /\ run.iter >= 1
    /\ run.iter - 1 >= run.burn
    /\ fault = "none"

\* the number of skills that appear, by item index, before the skill of the item does
FirstAppearanceRank(sa, item) ==
    LET first == CHOOSE j \in 0 .. item :
                    /\ sa[j] = sa[item]
                    /\ \A h \in 0 .. (j - 1) : sa[h] # sa[item]
    IN Cardinality({sa[h] : h \in 0 .. (first - 1)})

\* C11: the label vector recorded from a partition uses exactly the labels 0 .. k-1 for
\* k active skills, gives two items the same label exactly when they sit at the same
\* skill, and numbers the labels in the order in which the skills first appear by item
\* index, so that item 0 has label 0
C11_DenseRelabelling ==
    JustRecorded =>
        LET v == LastLabels
            k == Cardinality(extant_tables)
        IN /\ Len(v) = data.num_items
           /\ {v[n] : n \in 1 .. data.num_items} = 0 .. (k - 1)
           /\ \A i, j \in Items :
                 (At(v, i) = At(v, j)) <=> (seating_arrangement[i] = seating_arrangement[j])
           /\ \A i \in Items : At(v, i) = FirstAppearanceRank(seating_arrangement, i)
           /\ At(v, 0) = 0

\* no student outside train_students is in a student list of an item or of a skill, or
\* has an entry in trial_lookup
C12_NoHeldOutStudent ==
    /\ \A i \in Items : StudentSet(i) \subseteq data.train_students
    /\ \A i \in Items : \A k \in 1 .. Len(students_who_studied(i)) :
          students_who_studied(i)[k] \in data.train_students
    /\ \A t \in DOMAIN parameters : \A k \in 1 .. Len(students_to_include(t)) :
          students_to_include(t)[k] \in data.train_students
    /\ \A t \in DOMAIN trial_lookup : DOMAIN trial_lookup[t] \subseteq data.train_students

\* whatever the held-out students' sequences are replaced by, in any state of the chain,
\* everything the chain takes from the dataset is the same before and after
C12_SameReads == pc = "rewritten" => ChainReads = ret.reads

\* C12: the chain does not depend on the data of held-out students: no held-out student
\* is in trial_lookup or in a student list handed to a likelihood of the parameter or
\* partition sampler, and with other trial sequences for the held-out students every
\* quantity the constructor and the samplers compute from the dataset (and with it the
\* assignments, parameters, hyperparameters, trial index and training log-likelihoods
\* that follow from the same draws) is the same
C12_HeldOutBlind == C12_NoHeldOutStudent /\ C12_SameReads

\* the held-out student has other sequences than at construction, studied an item, and
\* a training log-likelihood was recorded after a sweep over the items
C12_Witness ==
    /\ data \notin Datasets
    /\ \E s \in Students \ data.train_students : NumTrials(s) > 0
    /\ train_ll_samples # <<>>
    /\ ~use_expert_labels
    /\ pc = "idle"
    /\ fault = "none"

\* the values compute_K has returned in the iteration: in the generative replays of
\* log_seating_prob of the hyperparameter stage, and for the item being resampled
GibbsK ==
    IF gib.active
    THEN {[item |-> gib.item, table_id |-> gib.keys[n], log_gamma |-> log_gamma,
           K |-> gib.seating_lp[n].K] : n \in 1 .. Len(gib.seating_lp)}
    ELSE {}

EvaluatedK == run.seating_K \cup GibbsK

\* C13 as stated: every value of compute_K, in Gibbs mode and in generative mode and for
\* every beta in [0, 1], is a number K with 0 < K <= 1
C13_KInHalfOpenUnit ==
    \A e \in EvaluatedK : ~e.K.nan /\ 0 < e.K.num /\ e.K.num <= e.K.den

\* C13, the part that holds: every value of compute_K is a number K with 0 <= K <= 1;
\* K > 0 whenever gamma > 0, which covers every evaluation in Gibbs mode; K = 0 is
\* returned only with gamma = 0 (beta = 1), in generative mode
C13_KInUnit ==
    /\ \A e \in EvaluatedK :
          /\ ~e.K.nan
          /\ e.K.den > 0
          /\ 0 <= e.K.num /\ e.K.num <= e.K.den
          /\ ExpGamma(e.log_gamma) > 0 => e.K.num > 0
    /\ \A e \in GibbsK : e.K.num > 0
    /\ \A e \in run.seating_K : e.K.num = 0 => beta = One /\ e.log_gamma = NegInf

\* the other items compute_K counts at the table of the call in `ret'
CountedOthers ==
    {o \in 0 .. ((IF ret.generative_mode THEN ret.item ELSE data.num_items) - 1) :
        o # ret.item /\ seating_arrangement[o] = ret.table_id}

\* the call was for a table that holds another item, and every other item there has the
\* expert label of the item
PureTableCall ==
    /\ ret.op = "compute_K"
    /\ CountedOthers # {}
    /\ \A o \in CountedOthers : ExpertLabel(o) = ExpertLabel(ret.item)

\* C14 as stated: compute_K is 1 when the table holds at least one other item and all
\* other items at the table have the expert label of the item, for any number of expert
\* labels and any gamma
C14_PureTableIsOne == PureTableCall => ret.K.num = ret.K.den

\* C14, amended: for such a table with c other items and V expert labels, compute_K is
\* 1 / (1 + (V - 1) * gamma^c); it is 1 exactly when V = 1 or gamma = 0, and smaller
\* otherwise
C14_PureTableValue ==
    PureTableCall =>
        LET c == Cardinality(CountedOthers)
            gamma == ExpGamma(log_gamma)
        IN /\ ~ret.K.nan
           /\ ret.K.num = IntPow(GammaRes, c)
           /\ ret.K.den = IntPow(GammaRes, c)
                          + (num_expert_provided_skills - 1) * IntPow(gamma, c)
           /\ (ret.K.num = ret.K.den) <=> (num_expert_provided_skills = 1 \/ gamma = 0)

\* a call for a pure table with two other items, several expert labels and gamma > 0;
\* the value is below 1
C14_Witness ==
    /\ PureTableCall
    /\ Cardinality(CountedOthers) = 2
    /\ num_expert_provided_skills > 1
    /\ Fin(0) # log_gamma /\ log_gamma.k = "fin"
    /\ ret.K.num < ret.K.den

\* the belief the replay from scratch holds when it reaches trial start_trial
RECURSIVE BeliefBefore(_, _, _, _, _)
BeliefBefore(sp, student, list, start_trial, cur_p_hat) ==
    IF list = <<>> \/ list[1] >= start_trial THEN cur_p_hat
    ELSE BeliefBefore(sp, student, Tail(list), start_trial,
                      PHatUpdate(sp, cur_p_hat, RecallAt(student, list[1])))

\* a ledger state of the Gibbs step: the item has left its table, or sits at the table
\* that is being probed
GibbsLedgerState ==
    /\ pc \in {"probe", "probe_remove"}
    /\ gib.active
    /\ fault = "none"

\* the positions in the student list of the item of those that have trials of the table
WithTrials(table_id) ==
    {k \in 1 .. Len(students_who_studied(gib.item)) :
        students_who_studied(gib.item)[k] \in DOMAIN trial_lookup[table_id]}

\* C15: in every ledger state of the Gibbs step, for every skill t and the students of the
\* resampled item that have trials of t, with their first encounters of the item as start
\* trials: the likelihood from scratch equals the likelihood from the cached beliefs,
\* student by student and summed, and the cached belief for t is the belief the replay
\* from scratch holds when it reaches the start trial
C15_ModesAgree ==
    GibbsLedgerState =>
        \A t \in extant_tables :
            LET S == students_who_studied(gib.item)
                T == all_first_encounters(gib.item)
                ks == AscSeq(WithTrials(t))
                S1 == [n \in 1 .. Len(ks) |-> S[ks[n]]]
                T1 == [n \in 1 .. Len(ks) |-> T[ks[n]]]
            IN /\ \A k \in WithTrials(t) :
                     /\ skill_log_likelihood(Ledger, t, <<S[k]>>, <<T[k]>>)
                            = cached_skill_log_likelihood(Ledger, t, <<S[k]>>, <<T[k]>>,
                                                          <<gib.p_hat[k]>>)
                     /\ gib.p_hat[k][t]
                            = BeliefBefore(parameters[t], S[k], trial_lookup[t][S[k]], T[k],
                                           parameters[t].psi)
               /\ skill_log_likelihood(Ledger, t, S1, T1)
                      = cached_skill_log_likelihood(Ledger, t, S, T, gib.p_hat)

\* the item sits at a table that is probed, a student has earlier trials of that table so
\* that the cached belief is not psi, and the likelihood of the table is not zero
C15_Witness ==
    /\ GibbsLedgerState
    /\ pc = "probe_remove"
    /\ \E k \in WithTrials(seating_arrangement[gib.item]) :
          LET t == seating_arrangement[gib.item]
              S == students_who_studied(gib.item)
              T == all_first_encounters(gib.item)
          IN /\ gib.p_hat[k][t] # parameters[t].psi
             /\ trial_lookup[t][S[k]][1] < T[k]
             /\ skill_log_likelihood(Ledger, t, <<S[k]>>, <<T[k]>>) < 0

\* the constructor arguments break a precondition the claim names
InvalidConfiguration == beta < 0 \/ beta > One \/ data.train_students = {}

\* nothing of the chain has been built: no item is seated, no skill exists, no sample
NothingBuilt ==
    /\ \A i \in Items : seating_arrangement[i] = UNASSIGNED
    /\ extant_tables = {} /\ parameters = EmptyMap /\ num_used_skills = 0
    /\ skill_label_samples = <<>> /\ train_ll_samples = <<>>

\* with such arguments the constructor never gets past its assertions
C16_NeverConstructed ==
    InvalidConfiguration =>
        /\ pc = "ctor_check"
        /\ NothingBuilt
        /\ fault \in {"none", "assert_train_students", "assert_beta"}

\* with such arguments the first step of the constructor body is a failed assertion
C16_FailsAtOnce ==
    [][InvalidConfiguration =>
          fault' = IF data.train_students = {} THEN "assert_train_students"
                   ELSE "assert_beta"]_vars

\* C16: constructing the chain with beta outside [0, 1] or with no training student
\* fails an assertion before anything is built: the construction does not complete and
\* no operation of the chain can follow
C16_FatalPrecondition == []C16_NeverConstructed /\ C16_FailsAtOnce

\* the assertion on beta has failed for a beta above 1 with training students present
C16_Witness ==
    /\ beta > One
    /\ data.train_students # {}
    /\ fault = "assert_beta"

\* the positions inside a call of run_mcmc
RunStages == {"hyper", "params", "sweep", "probe", "probe_remove", "eval", "record"}

\* C17: a call run_mcmc(num_iterations, burn, ...) with burn >= num_iterations is
\* rejected when it is made: no stage of such a run is ever entered, and no such run has
\* returned without a fault
C17_BurnBelowIterations ==
    /\ pc \in RunStages => run.burn < run.num_iterations
    /\ (pc = "idle" /\ run.num_iterations > 0 /\ fault = "none") =>
           run.burn < run.num_iterations

\* what run_mcmc does with burn >= num_iterations: it runs every iteration and returns
\* without a fault and without a sample more than before the call
C17_SilentRun ==
    /\ pc = "idle" /\ fault = "none"
    /\ run.num_iterations > 0
    /\ run.iter = run.num_iterations
    /\ run.burn >= run.num_iterations
    /\ Len(train_ll_samples) = run.base
    /\ Len(skill_label_samples) = run.base

\* the Gibbs step that has just ended drew a new-skill candidate
DrewNewSkill ==
    /\ pc = "sweep"
    /\ gib # NoGib /\ ~gib.active
    /\ gib.item \notin run.items_left
    /\ gib.drawn_event >= gib.num_extant_tables

\* the skills the constructor leaves: one per expert label in use
SkillsAfterConstruction == Cardinality({ExpertLabel(i) : i \in Items})

\* C18, what a new-skill draw does: no assertion fails, the item sits alone at a skill
\* that was not among the candidates, one more skill is active than before the draw, and
\* the skill has the parameters of the chosen draw of the pool
C18_NewSkillCreated ==
    DrewNewSkill =>
        LET t == seating_arrangement[gib.item]
        IN /\ fault = "none"
           /\ ~use_expert_labels
           /\ t \notin {gib.keys[n] : n \in 1 .. Len(gib.keys)}
           /\ t \in extant_tables
           /\ table_sizes[t] = 1
           /\ \A j \in Items \ {gib.item} : seating_arrangement[j] # t
           /\ Cardinality(extant_tables) = gib.num_extant_tables + 1
           /\ num_used_skills = gib.num_extant_tables + 1
           /\ parameters[t] = At(prior_samples, gib.drawn_event - gib.num_extant_tables)

\* C18, the reachable state: with beta = 0 and two items of the same expert label, a
\* sample has been retained in which the two items have different labels, they sit at
\* different skills, and more skills are active than after construction
C18_Witness ==
    /\ beta = 0
    /\ JustRecorded
    /\ budget.new_tables >= 1
    /\ \E i, j \in Items :
          /\ i # j
          /\ ExpertLabel(i) = ExpertLabel(j)
          /\ seating_arrangement[i] # seating_arrangement[j]
          /\ At(LastLabels, i) # At(LastLabels, j)
    /\ Cardinality(extant_tables) > SkillsAfterConstruction

\* the moves from one position of run_mcmc to the next: the hyperparameters, the
\* parameters of each skill, the resweep item by item (skipped with expert labels only),
\* the training log-likelihood, the recording, and then the next iteration or the return
StageSuccession ==
    {<<"hyper", "params">>, <<"params", "sweep">>, <<"params", "eval">>,
     <<"sweep", "probe">>, <<"probe", "probe_remove">>, <<"probe_remove", "probe">>,
     <<"probe", "sweep">>, <<"sweep", "eval">>, <<"eval", "record">>,
     <<"record", "hyper">>, <<"record", "idle">>}

\* every step of a run moves along the succession, and each stage changes only what is
\* its own: the hyperparameters in the first, the parameters of the skills in the second
\* and (with the skills it creates and deletes) in the resweep, the seating in the
\* resweep, nothing in the evaluation, the samples and the iteration index in the
\* recording; an iteration starts only from the recording of the one before
C19_StageStep ==
    pc \in RunStages =>
        /\ pc' # pc => <<pc, pc'>> \in StageSuccession
        /\ (pc = "params" /\ pc' = "eval") => use_expert_labels
        /\ (pc = "params" /\ pc' = "sweep") => ~use_expert_labels
        /\ hyperVars' # hyperVars => pc = "hyper"
        /\ parameters' # parameters => pc \in {"params", "sweep", "probe", "probe_remove"}
        /\ seating_arrangement' # seating_arrangement =>
               pc \in {"sweep", "probe", "probe_remove"}
        /\ pc = "eval" => UNCHANGED <<ledgerVars, hyperVars, sampleVars>>
        /\ sampleVars' # sampleVars => pc = "record"
        /\ run.iter' # run.iter => pc = "record" /\ run.iter' = run.iter + 1
        /\ pc' = "hyper" => pc = "record" /\ run.iter' < run.num_iterations
        /\ pc = "record" => UNCHANGED <<ledgerVars, hyperVars>>

C19_StageOrder == [][C19_StageStep]_vars

\* the sample recorded last is the training log-likelihood, the partition and the
\* predictions of one and the same state, the one the iteration ended in
C19_RecordedFromCommittedState ==
    JustRecorded =>
        /\ ~FullDataThrows(Ledger, TRUE)
        /\ train_ll_samples[Len(train_ll_samples)] = full_data_log_likelihood(Ledger, TRUE)
        /\ \A i, j \in Items :
              (At(LastLabels, i) = At(LastLabels, j))
                  <=> (seating_arrangement[i] = seating_arrangement[j])
        /\ \A s \in Students : \A t \in 1 .. NumTrials(s) :
              pRT_samples[s][t][Len(pRT_samples[s][t])] = StudentPredictions(Ledger, s)[t]

\* C19: every iteration of run_mcmc goes through its stages in the order hyperparameters,
\* per-skill parameters, resweep, training log-likelihood, recording; the next iteration
\* starts only after the recording; and the training log-likelihood stored with a sample
\* is the one of the state whose partition and predictions are recorded
C19_OrderedStages == []C19_RecordedFromCommittedState /\ C19_StageOrder

\* the second iteration of a run with a resweep has been recorded, and its training
\* log-likelihood differs from the one of the first
C19_Witness ==
    /\ JustRecorded
    /\ ~use_expert_labels
    /\ run.iter = 2
    /\ Len(train_ll_samples) = 2
    /\ train_ll_samples[1] # train_ll_samples[2]

-----------------------------------------------------------------------------
(* C20: the candidates of gibbs_resample_skill *)

\* the skills that have an item other than i
ActiveWithout(i) == {seating_arrangement[j] : j \in Items \ {i}} \ {UNASSIGNED}

\* the items other than i that sit at the skill
SeatedWithout(i, table_id) ==
    Cardinality({j \in Items \ {i} : seating_arrangement[j] = table_id})

\* the candidate list is complete: the draw has been made from it
CandidatesComplete == gib # NoGib /\ ~gib.active

\* the loop over the extant skills is under way or over, and the draw is not made yet
CandidatesUnderWay == gib # NoGib /\ gib.active /\ pc = "probe" /\ fault = "none"

\* the entries for the extant skills that the list has so far: the n-th is for the n-th
\* smallest skill id, and its weight is computed from the number of other items there
OldTableEntries(upto) ==
    \A n \in 1 .. upto :
       /\ gib.seating_lp[n].kind = "old_table"
       /\ gib.seating_lp[n].num_seated = SeatedWithout(gib.item, gib.keys[n])
       /\ gib.seating_lp[n].num_seated >= 1

\* while the list is built, the set of extant skills does not change: it is the set of
\* skills that are active without the item, each of them once among the keys
C20_KeysAreActiveSkills ==
    (CandidatesUnderWay \/ CandidatesComplete) =>
        /\ {gib.keys[n] : n \in 1 .. Len(gib.keys)} = ActiveWithout(gib.item)
        /\ \A m, n \in 1 .. Len(gib.keys) : m < n => gib.keys[m] < gib.keys[n]

\* while the list is built it has one entry in each of the three vectors for every skill
\* visited, and the ledger counts the skills that are active without the item
C20_ListUnderWay ==
    CandidatesUnderWay =>
        /\ extant_tables = ActiveWithout(gib.item)
        /\ num_used_skills = Len(gib.keys)
        /\ Len(gib.seating_lp) = gib.probed
        /\ Len(gib.data_lp_with_item) = gib.probed
        /\ Len(gib.data_lp_without_item) = gib.probed
        /\ OldTableEntries(gib.probed)

\* the complete list: one entry per active skill, then num_subsamples new-skill entries
C20_ListComplete ==
    CandidatesComplete =>
        LET num_old == Cardinality(ActiveWithout(gib.item))
        IN /\ gib.num_extant_tables = num_old
           /\ Len(gib.keys) = num_old
           /\ Len(gib.seating_lp) = num_old + NumSubsamples
           /\ Len(gib.data_lp_with_item) = num_old + NumSubsamples
           /\ Len(gib.data_lp_without_item) = num_old + NumSubsamples
           /\ OldTableEntries(num_old)
           /\ \A n \in (num_old + 1) .. (num_old + NumSubsamples) :
                 gib.seating_lp[n].kind = "new_table"

\* C20: in gibbs_resample_skill(i) the candidate list has exactly one entry per skill
\* that is active once i has been removed, in the order of the skill ids, followed by
\* exactly num_subsamples new-skill entries; none of the three size assertions against
\* num_used_skills + num_subsamples fails; and the seating weight of each active skill
\* is computed from the number of its items other than i
C20_CandidateList ==
    /\ fault # "assert_candidates"
    /\ C20_KeysAreActiveSkills
    /\ C20_ListUnderWay
    /\ C20_ListComplete

\* a draw has been made among two active skills and the new-skill entries, for an item
\* that shared its skill with another item
C20_Witness ==
    /\ CandidatesComplete /\ fault = "none"
    /\ gib.num_extant_tables = 2
    /\ Len(gib.seating_lp) = 2 + NumSubsamples
    /\ gib.cur_table_id \in ActiveWithout(gib.item)
    /\ \E n \in 1 .. 2 : gib.seating_lp[n].num_seated >= 1

-----------------------------------------------------------------------------
(* C21: the commit of the drawn candidate *)

\* gibbs_resample_skill has just returned for gib.item
JustDrew == pc = "sweep" /\ CandidatesComplete /\ gib.item \notin run.items_left

KeySet == {gib.keys[n] : n \in 1 .. Len(gib.keys)}

\* an index below the number of active skills: the item joins the skill of that index
C21_JoinsDrawnSkill ==
    (JustDrew /\ gib.drawn_event < gib.num_extant_tables) =>
        /\ seating_arrangement[gib.item] = gib.keys[gib.drawn_event + 1]
        /\ extant_tables = KeySet
        /\ DOMAIN parameters = KeySet
        /\ num_used_skills = gib.num_extant_tables

\* any other index: a new skill with the item alone, whose parameter record is the draw of
\* the pool with index d minus the number of active skills; the weight of the candidate
\* was made of the singleton likelihood of that draw, which is the likelihood of the new
\* skill
C21_CreatesDrawnSkill ==
    (JustDrew /\ gib.drawn_event >= gib.num_extant_tables /\ fault = "none") =>
        LET item == gib.item
            t == seating_arrangement[item]
            chosen_subsample == gib.drawn_event - gib.num_extant_tables
        IN /\ chosen_subsample < NumSubsamples
           /\ t \notin KeySet
           /\ extant_tables = KeySet \cup {t}
           /\ ItemsAt(seating_arrangement, t) = {item}
           /\ parameters[t] = At(prior_samples, chosen_subsample)
           /\ At(gib.data_lp_with_item, gib.drawn_event)
                = At(singleton_skill_data_lp[item], chosen_subsample)
           /\ At(gib.data_lp_with_item, gib.drawn_event)
                = skill_log_likelihood(Ledger, t, students_who_studied(item),
                                       all_first_encounters(item))

\* C21: gibbs_resample_skill(i) commits the candidate it drew.  With a drawn index d
\* below the number of active skills, i is assigned to the d-th skill of the enumeration
\* the weights were built in, and no skill is created; otherwise a new skill holding
\* only i is created with the parameters of the pool draw of index d minus the number of
\* active skills, the draw whose singleton likelihood was that candidate's weight
C21_CommitsDrawnCandidate ==
    /\ JustDrew => gib.num_extant_tables = Len(gib.keys)
    /\ C21_JoinsDrawnSkill
    /\ C21_CreatesDrawnSkill

\* the second draw of the pool was chosen while two skills were active, and the pool has
\* different draws
C21_Witness ==
    /\ JustDrew /\ fault = "none"
    /\ gib.num_extant_tables = 2
    /\ gib.drawn_event = gib.num_extant_tables + 1
    /\ At(prior_samples, 0) # At(prior_samples, 1)
    /\ parameters[seating_arrangement[gib.item]] = At(prior_samples, 1)

\* the second of two active skills was chosen by an item that sat at the first
C21_WitnessJoin ==
    /\ JustDrew /\ fault = "none"
    /\ gib.num_extant_tables = 2
    /\ gib.drawn_event = 1
    /\ gib.cur_table_id = gib.keys[1]
    /\ seating_arrangement[gib.item] = gib.keys[2]

-----------------------------------------------------------------------------
(* C22: skill identifiers *)

\* every identifier the ledger holds: of active skills, of parameter records, of sizes,
\* of trial lists and of the seats of the items
IdsInUse ==
    extant_tables \cup DOMAIN parameters \cup DOMAIN table_sizes \cup DOMAIN trial_lookup
        \cup ({seating_arrangement[i] : i \in Items} \ {UNASSIGNED})

InitialSeating == pc \in {"ctor_check", "ctor_seat"}

\* no identifier is the sentinel; during the initial seating the identifiers are
\* 1 + expert label, and from then on every identifier in use is below the counter
C22_IdsBelowCounter ==
    /\ UNASSIGNED \notin IdsInUse
    /\ InitialSeating => IdsInUse \subseteq {1 + ExpertLabel(i) : i \in Items}
    /\ ~InitialSeating =>
           /\ \A t \in IdsInUse : t < tables_ever_instantiated
           /\ \A i \in Items : 1 + ExpertLabel(i) < tables_ever_instantiated

\* a step never lowers the counter, and an identifier that comes into use after the
\* initial seating is at or above the counter as it was and below the counter as it is
C22_FreshIdStep ==
    /\ tables_ever_instantiated' >= tables_ever_instantiated
    /\ ~InitialSeating =>
           \A t \in IdsInUse' \ IdsInUse :
              /\ t >= tables_ever_instantiated
              /\ t < tables_ever_instantiated'

C22_FreshIds == [][C22_FreshIdStep]_vars

\* C22: skill identifiers are never reused.  Every skill created after the initial
\* expert-label seating gets an identifier that is at least the counter, and the counter
\* is above every identifier used before it (the initial 1 + expert label included) and
\* never goes down, so the identifier of a destroyed skill is never given again; no
\* identifier is UNASSIGNED
C22_IdsNeverReused == []C22_IdsBelowCounter /\ C22_FreshIds

\* a Gibbs step has created a skill after the constructor destroyed and re-created one:
\* the identifiers 1 + expert label and the temporary ones are out of use and stay so
C22_Witness ==
    /\ DrewNewSkill /\ fault = "none"
    /\ \E i \in Items : 1 + ExpertLabel(i) \notin IdsInUse
    /\ \E t \in 1 .. (tables_ever_instantiated - 1) :
          /\ t > 1 + num_expert_provided_skills
          /\ t \notin IdsInUse
    /\ seating_arrangement[gib.item] = tables_ever_instantiated - 1

-----------------------------------------------------------------------------
(* C23: the pool and the singleton likelihoods *)

UnderConstruction ==
    pc \in {"ctor_check", "ctor_seat", "ctor_remove", "ctor_single", "ctor_unsingle",
            "ctor_reassign"}

C23_PoolStep == ~UnderConstruction => UNCHANGED poolVars

\* C23: prior_samples and singleton_skill_data_lp are written only during construction:
\* no step of run_mcmc (hyperparameter updates, parameter updates, Gibbs steps,
\* evaluation, recording) and no query changes an entry of either, also after a draw of
\* the pool was copied into the record of a new skill and that record was slice-updated
C23_PoolReadOnly == [][C23_PoolStep]_vars

\* the pool after construction is the one the constructor drew
C23_PoolAsDrawn ==
    (~UnderConstruction /\ ~use_expert_labels) => prior_samples \in draw_prior_samples

\* a Gibbs step gave a draw of the pool to a new skill, a later slice update moved the
\* record of that skill away from every draw of the pool, and the pool is as drawn
C23_Witness ==
    /\ pc = "idle" /\ fault = "none"
    /\ budget.new_tables = 1
    /\ prior_samples \in draw_prior_samples
    /\ \E t \in extant_tables :
          /\ t = tables_ever_instantiated - 1
          /\ \A k \in 1 .. NumSubsamples : parameters[t] # prior_samples[k]
          /\ \E k \in 1 .. NumSubsamples :
                /\ parameters[t].mu = prior_samples[k].mu
                /\ parameters[t].prop0 = prior_samples[k].prop0

-----------------------------------------------------------------------------
(* C24: the range of the skill parameters *)

InParamRange(x) == TOL <= x /\ x <= ONEMINUSTOL

RecordInRange(sp) ==
    InParamRange(sp.psi) /\ InParamRange(sp.mu) /\ InParamRange(sp.pi1)
        /\ InParamRange(sp.prop0)

\* a slice update is between its first and its last assignment to *param
InsideSliceUpdate == pc \in {"slice_left", "slice_right", "slice_shrink"}

\* the records of the skills, but for the parameter a slice update is working on
C24_RecordsInRange ==
    \A t \in DOMAIN parameters :
       \A name \in {"psi", "mu", "pi1", "prop0"} :
          (InsideSliceUpdate /\ t = ret.table_id /\ name = Head(ret.param_ptrs))
              \/ InParamRange(parameters[t][name])

\* the draws of the prior and of the pool
C24_DrawsInRange ==
    /\ \A sp \in draw_bkt_param_prior : RecordInRange(sp)
    /\ \A k \in 1 .. Len(prior_samples) : RecordInRange(prior_samples[k])

\* every value *param had when a slice update called skill_log_likelihood
C24_EvaluatedInRange ==
    ret.op = "slice_resample_bkt_parameter" =>
        \A x \in ret.evaluated_at : InParamRange(x)

\* C24: psi, mu, pi1 and prop0 of every skill lie in [TOL, 1 - TOL] whenever a likelihood
\* is evaluated and whenever an operation has returned: the prior draws are in the range,
\* a slice update leaves the parameter in the range, and it never calls
\* skill_log_likelihood while the parameter is outside (an expansion loop tests the end
\* of the bracket before it evaluates)
C24_ParametersInRange ==
    /\ C24_RecordsInRange
    /\ C24_DrawsInRange
    /\ C24_EvaluatedInRange

\* the left expansion loop has evaluated the likelihood at TOL and stepped on: *param is
\* below the range, and the loop is about to end without another evaluation
C24_Witness ==
    /\ pc = "slice_left"
    /\ TOL \in ret.evaluated_at
    /\ ret.x_l = TOL - BracketWidth
    /\ parameters[ret.table_id][Head(ret.param_ptrs)] = ret.x_l
    /\ ~InParamRange(parameters[ret.table_id][Head(ret.param_ptrs)])

-----------------------------------------------------------------------------
(* C25: the bounds of the hyperparameter updates *)

\* lower <= x <= upper on doubles
WithinBounds(x, lower, upper) == ExtLeq(Fin(lower * HyperOne), x) /\ ExtLeq(x, Fin(upper * HyperOne))

\* the hyperparameter updates of the iteration have just been made
HyperparametersUpdated == pc = "params" /\ run.tables_left = DOMAIN parameters

\* C25: after every hyperparameter slice update the updated value lies within the bounds
\* supplied to the update: log_alpha_prime in [-10, 11] after an update of it and
\* log_gamma in [-8, 0] after an update of it, for every beta in [0, 1]
C25_UpdatedWithinBounds ==
    HyperparametersUpdated =>
        /\ AlphaPrimeUpdateEnabled => WithinBounds(log_alpha_prime, -10, 11)
        /\ GammaUpdateEnabled => WithinBounds(log_gamma, -8, 0)

\* the part that holds: for beta < 1 both updated values are within their bounds
C25_WithinBoundsBelowOne ==
    (HyperparametersUpdated /\ beta < One) =>
        /\ AlphaPrimeUpdateEnabled => WithinBounds(log_alpha_prime, -10, 11)
        /\ GammaUpdateEnabled => WithinBounds(log_gamma, -8, 0)

\* with beta = 1 the update of log_gamma has been made without a fault and has left
\* minus infinity or NaN in it
C25_Witness ==
    /\ HyperparametersUpdated /\ fault = "none"
    /\ beta = One
    /\ GammaUpdateEnabled
    /\ log_gamma.k \in {"ninf", "nan"}

-----------------------------------------------------------------------------
(* C26: the loops of the slice updates *)

\* the calls of slice_resample_wcrp_param that the hyperparameter stage is about to make
\* (lines 309 and 312): the update of log_gamma sees what the update of log_alpha_prime
\* has left
HyperCalls ==
    LET lp0 == log_seating_prob(log_gamma, log_alpha_prime)
        alpha_call == [which |-> "alpha", cur_val |-> log_alpha_prime, other |-> log_gamma,
                       lp |-> lp0, lower_bound |-> Fin((-10) * HyperOne),
                       upper_bound |-> Fin(11 * HyperOne)]
        after_alpha == IF AlphaPrimeUpdateEnabled
                       THEN slice_resample_wcrp_param("alpha", log_alpha_prime, log_gamma, lp0,
                                                      Fin((-10) * HyperOne), Fin(11 * HyperOne))
                       ELSE {[param |-> log_alpha_prime, lp |-> lp0]}
    IN (IF AlphaPrimeUpdateEnabled THEN {alpha_call} ELSE {})
       \cup (IF GammaUpdateEnabled
             THEN {[which |-> "gamma", cur_val |-> log_gamma, other |-> a.param,
                    lp |-> a.lp, lower_bound |-> Fin((-8) * HyperOne),
                    upper_bound |-> Fin(0)] : a \in after_alpha}
             ELSE {})

BracketsOf(c) ==
    shrinkage_brackets(c.which, c.cur_val, c.other, c.lp, c.lower_bound, c.upper_bound)

HoldsCurrent(b, cur_val) == ExtLeq(b.x_l, cur_val) /\ ExtLeq(cur_val, b.x_r)

\* C26, the bracket of the shrinkage loop: in every slice update, of a skill parameter
\* or of a hyperparameter, the shrinkage loop works on a bracket with
\* x_l <= current value <= x_r
C26_BracketsHoldCurrent ==
    /\ pc = "slice_shrink" => (ret.x_l <= ret.cur_val /\ ret.cur_val <= ret.x_r)
    /\ (pc = "hyper" /\ fault = "none") =>
           \A c \in HyperCalls : \A b \in BracketsOf(c) : HoldsCurrent(b, c.cur_val)

\* the part that holds: the brackets of the skill-parameter updates, and those of the
\* hyperparameter updates of a chain with beta < 1
C26_BracketsHoldCurrentBelowOne ==
    /\ pc = "slice_shrink" => (ret.x_l <= ret.cur_val /\ ret.cur_val <= ret.x_r)
    /\ (pc = "hyper" /\ fault = "none" /\ beta < One) =>
           \A c \in HyperCalls : \A b \in BracketsOf(c) : HoldsCurrent(b, c.cur_val)

\* an expansion loop of a skill-parameter update makes at most
\* (upper_bound - lower_bound) / initial_bracket_width + 1 passes
C26_ExpansionBounded ==
    pc \in {"slice_left", "slice_right"} =>
        ret.passes <= (ONEMINUSTOL - TOL) \div BracketWidth + 1

\* with beta = 1 the update of log_gamma is about to be made, and its shrinkage loop
\* starts with x_l = -8 and x_r = minus infinity around the current value minus infinity
C26_Witness ==
    /\ pc = "hyper" /\ fault = "none"
    /\ beta = One
    /\ \E c \in HyperCalls :
          /\ c.which = "gamma"
          /\ c.cur_val = NegInf
          /\ [x_l |-> Fin((-8) * HyperOne), x_r |-> NegInf] \in BracketsOf(c)

-----------------------------------------------------------------------------
(* C27: the frame of gibbs_resample_skill *)

\* the number of active skills when gibbs_resample_skill was called: the removal of
\* line 395 has destroyed the skill of the item iff it is not active afterwards
ActiveBeforeCall ==
    gib.before.nus + (IF gib.cur_table_id \in gib.before.extant THEN 0 ELSE 1)

\* whenever the loop over the active skills is at its head, before the first probe and
\* after each one, the ledger (assignment, sizes, active set, parameter records, trial
\* lists, skill count) is the one line 395 left
C27_ProbeRestoresLedger ==
    (pc = "probe" /\ gib.active /\ fault = "none") => Ledger = gib.before

\* while the item sits at a probed skill the active set, the parameter records and the
\* skill count are those of before the probe, and nothing but the item has moved
C27_ActiveSetWhileProbing ==
    (pc = "probe_remove" /\ gib.active /\ fault = "none") =>
        /\ extant_tables = gib.before.extant
        /\ AscSeq(extant_tables) = gib.keys
        /\ parameters = gib.before.params
        /\ num_used_skills = gib.before.nus
        /\ \A j \in Items \ {gib.item} : seating_arrangement[j] = gib.before.sa[j]

\* on return the other items sit where they sat and the number of active skills differs
\* from its value before the call by at most one
C27_OnReturn ==
    (gib # NoGib /\ ~gib.active) =>
        /\ \A j \in Items \ {gib.item} : seating_arrangement[j] = gib.before.sa[j]
        /\ num_used_skills - ActiveBeforeCall \in {-1, 0, 1}

\* C27: a probe of gibbs_resample_skill leaves the ledger exactly as it was before the
\* probe, the active set is not modified while it is iterated, and on return only the
\* resampled item may have moved and the number of active skills has changed by at most one
C27_ProbesLeaveLedger ==
    /\ C27_ProbeRestoresLedger
    /\ C27_ActiveSetWhileProbing
    /\ C27_OnReturn

\* a probe has been completed at a skill that holds another item, with a student who has
\* trials of both items so that the trial lists were merged and separated again
C27_Witness ==
    /\ pc = "probe" /\ gib.active /\ fault = "none"
    /\ gib.probed >= 1
    /\ LET table_id == gib.keys[gib.probed]
       IN \E j \in Items \ {gib.item} :
             /\ seating_arrangement[j] = table_id
             /\ \E s \in StudentSet(gib.item) \cap StudentSet(j) :
                   /\ s \in DOMAIN trial_lookup[table_id]
                   /\ \E k \in 1 .. Len(trials_studied(s, gib.item)) :
                         trials_studied(s, gib.item)[k] < trial_lookup[table_id][s][1]

\* a call has returned with one active skill fewer than before: the item left a skill
\* of its own and joined another
C27_WitnessOneFewer ==
    /\ gib # NoGib /\ ~gib.active /\ fault = "none"
    /\ num_used_skills = ActiveBeforeCall - 1

-----------------------------------------------------------------------------
(* C28: the partition the constructor leaves *)

\* the constructor has returned and no call of run_mcmc has been made
Constructed == pc = "idle" /\ run = NoRun /\ fault = "none"

\* C28: after construction, with beta = 0 as with beta = 1, two items sit at the same
\* skill iff they have the same expert label, every item is seated, and the number of
\* active skills is the number of distinct expert labels that occur
C28_ExpertPartitionBuilt ==
    Constructed =>
        /\ \A i \in Items : seating_arrangement[i] \in extant_tables
        /\ \A i, j \in Items :
              (seating_arrangement[i] = seating_arrangement[j])
                  <=> (ExpertLabel(i) = ExpertLabel(j))
        /\ num_used_skills = SkillsAfterConstruction
        /\ Cardinality(extant_tables) = SkillsAfterConstruction
        /\ DOMAIN table_sizes = extant_tables
        /\ \A t \in extant_tables :
              table_sizes[t] = Cardinality({i \in Items : seating_arrangement[i] = t})

\* with beta = 0 the precomputation has run: every item has its singleton likelihoods,
\* and an item that sat alone sits at a skill re-created under a new identifier
C28_Witness ==
    /\ Constructed
    /\ beta = 0
    /\ \A i \in Items : Len(singleton_skill_data_lp[i]) = NumSubsamples
    /\ \E i \in Items :
          /\ seating_arrangement[i] # 1 + ExpertLabel(i)
          /\ seating_arrangement[i] > 1 + num_expert_provided_skills

\* with beta = 0 two items of one expert label share the skill they were seated at
C28_WitnessShared ==
    /\ Constructed
    /\ beta = 0
    /\ \E i, j \in Items :
          /\ i # j
          /\ seating_arrangement[i] = 1 + ExpertLabel(i)
          /\ seating_arrangement[j] = seating_arrangement[i]

\* with beta = 1 the constructor returns after the seating
C28_WitnessExpertOnly ==
    /\ Constructed
    /\ beta = One
    /\ prior_samples = <<>>
    /\ \E i, j \in Items : seating_arrangement[i] # seating_arrangement[j]

-----------------------------------------------------------------------------
(* C29: the three sample series *)

\* C29: in every state the number of recorded training log-likelihoods equals the number
\* of recorded label vectors and the number of recorded predictions of every
\* (student, trial) pair, pRT_samples has one series per trial of every student, and
\* the assertion of get_most_likely_skill_labels on the two sizes has not failed
C29_SeriesSameLength ==
    /\ Len(train_ll_samples) = Len(skill_label_samples)
    /\ DOMAIN pRT_samples = Students
    /\ \A s \in Students :
          /\ Len(pRT_samples[s]) = NumTrials(s)
          /\ \A t \in 1 .. NumTrials(s) : Len(pRT_samples[s][t]) = Len(train_ll_samples)
    /\ fault # "assert_sample_sizes"

\* a run has recorded a sample and get_most_likely_skill_labels has returned a vector
C29_Witness ==
    /\ ret.op = "get_most_likely_skill_labels"
    /\ fault = "none"
    /\ Len(train_ll_samples) >= 1
    /\ \E s \in Students : NumTrials(s) >= 2 /\ Len(pRT_samples[s][2]) = Len(skill_label_samples)

\* an iteration before the end of burn-in has ended without a sample: the three series
\* are empty
C29_WitnessBurn ==
    /\ pc = "idle" /\ fault = "none"
    /\ run # NoRun
    /\ train_ll_samples = <<>>

-----------------------------------------------------------------------------
(* C30: the log-density handed from one slice update to the next *)

\* the slice updates of the skill have begun and at least one has returned
SliceUpdateReturned ==
    /\ ret.op = "slice_resample_bkt_parameter"
    /\ pc \in {"slice_call", "params"}
    /\ Len(ret.param_ptrs) < 4
    /\ fault = "none"

\* the cur_ll that is passed to the next update of a skill parameter, the first one
\* included, is the likelihood of the skill under the parameters the chain has
C30_SkillArgumentCurrent ==
    (pc = "slice_call" /\ fault = "none") => ret.cur_ll = SliceLL(parameters)

\* the value an update of a skill parameter has returned is the likelihood of the skill
\* at the value it has left in the record
C30_SkillReturnRescored ==
    SliceUpdateReturned => ret.cur_ll = SliceLL(parameters)

\* the cur_seating_lp passed to each hyperparameter update is log_seating_prob of the
\* chain state at the call, and the value each update returns is log_seating_prob at the
\* value it leaves
C30_SeatingRescored ==
    (pc = "hyper" /\ fault = "none") =>
        \A c \in HyperCalls :
            /\ c.lp = SeatingLpAt(c.which, c.cur_val, c.other)
            /\ \A r \in slice_resample_wcrp_param(c.which, c.cur_val, c.other, c.lp,
                                                  c.lower_bound, c.upper_bound) :
                  r.lp = SeatingLpAt(c.which, r.param, c.other)

C30_WitnessSeating ==
    /\ pc = "hyper" /\ fault = "none"
    /\ \E c \in HyperCalls :
          /\ c.which = "gamma"
          /\ c.other # log_alpha_prime
          /\ c.lp = "fin"

=============================================================================
